---------------------------- MODULE Spec2Model ----------------------------
(***************************************************************************)
(* State-machine model of the Spectre 3-band spectral envelope follower    *)
(* (src/spectralEnvFollower.cpp): construct, parameterChanged, step, draw, *)
(* customUi, setupUi.                                                      *)
(*                                                                         *)
(* Numbers.  The program computes in IEEE single precision.  The model     *)
(* computes in fixed point:                                                *)
(*   - amplitudes, energies, envelopes, coefficients and volts are Q12     *)
(*     (the integer x stands for x / One);                                 *)
(*   - bin positions and bandwidths in bins are Q9 (x stands for x / Bin); *)
(*   - spectrum magnitudes are Q4 (x stands for x / MagOne).               *)
(* Products are rounded to nearest, as float products are.                 *)
(*                                                                         *)
(* Transform.  The 512-point FFT of the windowed samples is not computed.  *)
(* Its magnitude spectrum is exactly zero when every windowed sample is    *)
(* zero; otherwise it is one of the spectra of the family Magnitudes,      *)
(* picked by the caller of the analysis pass (the oracle argument).  The   *)
(* routines bitReverse, simpleFFT and realFFT are modelled separately by   *)
(* the buffer indices they read and write.                                 *)
(***************************************************************************)
EXTENDS Integers, Sequences, FiniteSets, TLC

-----------------------------------------------------------------------------
(* Configuration constants of the program *)

kFftSize == 512
kFftRateHz == 60
kReferenceVoltage == 10
kMaxBus == 28
kDefaultSampleRate == 48000
kNumBands == 3

half == kFftSize \div 2

(* Parameter indices (the enum of the parameter list) *)
kParamInput == 0
kParamCvOut1 == 1
kParamCvOut1Mode == 2
kParamCvOut2 == 3
kParamCvOut2Mode == 4
kParamCvOut3 == 5
kParamCvOut3Mode == 6
kParamBandAFreq == 7
kParamBandBFreq == 8
kParamBandCFreq == 9
kParamBandwidth == 10
kParamAttackTime == 11
kParamReleaseTime == 12
kParamDetectionMode == 13

Params == kParamInput .. kParamDetectionMode
Bands == 0 .. (kNumBands - 1)

-----------------------------------------------------------------------------
(* Fixed-point representation of the program's floats *)

One == 2 ^ 12
Bin == 2 ^ 9
MagOne == 2 ^ 4

Abs(x) == IF x < 0 THEN -x ELSE x
Min(a, b) == IF a < b THEN a ELSE b
Max(a, b) == IF a > b THEN a ELSE b

(* x / q rounded to the nearest integer, ties away from zero (q > 0) *)
RoundDiv(x, q) ==
    IF x >= 0 THEN (x + q \div 2) \div q ELSE -((-x + q \div 2) \div q)

(* (int)x of a float x held with scale q: truncation toward zero *)
TruncDiv(x, q) == IF x >= 0 THEN x \div q ELSE -((-x) \div q)

(* Q12 product a * b *)
MulQ(a, b) == RoundDiv(a * b, One)

(* a / b with scale s, by long division so that no intermediate exceeds  *)
(* 32 bits: (a \div b) * s + ((a % b) * s) / b   (a >= 0, b > 0)         *)
DivFix(a, b, s) == (a \div b) * s + RoundDiv((a % b) * s, b)

(* expf(-y) for y >= 0 in Q12: halve the argument until it is at most    *)
(* 1/2, sum the series there, and square back.                           *)
ExpNegSeries(z) ==
    LET z2 == MulQ(z, z)
        z3 == MulQ(z2, z)
        z4 == MulQ(z3, z)
        z5 == MulQ(z4, z)
    IN  One - z + RoundDiv(z2, 2) - RoundDiv(z3, 6) + RoundDiv(z4, 24)
            - RoundDiv(z5, 120)

RECURSIVE ExpNeg(_)
ExpNeg(y) ==
    IF y <= One \div 2 THEN ExpNegSeries(y)
    ELSE LET h == ExpNeg(y \div 2) IN MulQ(h, h)

(* powf(2.0f, x) for x >= 0 in Q12: 2^floor(x) * exp(frac(x) * ln 2) *)
Ln2 == RoundDiv(69315 * One, 100000)

ExpPosSeries(z) ==
    LET z2 == MulQ(z, z)
        z3 == MulQ(z2, z)
        z4 == MulQ(z3, z)
        z5 == MulQ(z4, z)
        z6 == MulQ(z5, z)
    IN  One + z + RoundDiv(z2, 2) + RoundDiv(z3, 6) + RoundDiv(z4, 24)
            + RoundDiv(z5, 120) + RoundDiv(z6, 720)

Pow2(x) == (2 ^ (x \div One)) * ExpPosSeries(MulQ(x % One, Ln2))

(* sqrtf of a non-negative integer: the integer square root *)
RECURSIVE SqrtSearch(_, _, _)
SqrtSearch(x, lo, hi) ==
    IF lo >= hi THEN lo
    ELSE LET mid == (lo + hi + 1) \div 2
         IN  IF mid * mid <= x THEN SqrtSearch(x, mid, hi)
             ELSE SqrtSearch(x, lo, mid - 1)

Sqrt(x) == SqrtSearch(x, 0, 46340)

-----------------------------------------------------------------------------
(* State *)

VARIABLES
    d,          \* the instance's _SpectralEnvFollower_DTC, with three observation
                \* fields: ingested (samples stored), passes (analysis passes
                \* run) and trace (one record per pass) since construct
    d2,         \* the DTC of a second instance, fed the same stream under
                \* another block partition
    v,          \* the parameter values the host keeps for the instance (self->v)
    sampleRate, \* NT_globals.sampleRate
    stream,     \* the sample stream the host plays: "free" (chosen block by
                \* block) or a script
    bus,        \* the host bus block of the last step call: bus.entry as the
                \* host passed it, bus.exit as step left it
    call,       \* the last call made on the instance
    calls       \* how many calls of each kind have been made (step calls are
                \* counted up to MaxSteps)

vars == <<d, d2, v, sampleRate, stream, bus, call, calls>>

-----------------------------------------------------------------------------
(* gParameters: default value of each parameter *)

ParamDefault(p) ==
    CASE p = kParamInput -> 1
      [] p = kParamCvOut1 -> 13
      [] p = kParamCvOut2 -> 14
      [] p = kParamCvOut3 -> 15
      [] p = kParamBandAFreq -> 100
      [] p = kParamBandBFreq -> 1000
      [] p = kParamBandCFreq -> 8000
      [] p = kParamBandwidth -> 33
      [] p = kParamAttackTime -> 10
      [] p = kParamReleaseTime -> 100
      [] OTHER -> 0

(* gParameters: declared range of each parameter *)
ParamMin(p) ==
    CASE p \in {kParamInput, kParamCvOut1, kParamCvOut2, kParamCvOut3} -> 1
      [] p \in {kParamBandAFreq, kParamBandBFreq, kParamBandCFreq} -> 20
      [] p = kParamBandwidth -> 10
      [] p = kParamAttackTime -> 1
      [] p = kParamReleaseTime -> 10
      [] OTHER -> 0

ParamMax(p) ==
    CASE p \in {kParamInput, kParamCvOut1, kParamCvOut2, kParamCvOut3} -> kMaxBus
      [] p \in {kParamBandAFreq, kParamBandBFreq, kParamBandCFreq} -> 20000
      [] p = kParamBandwidth -> 200
      [] p = kParamAttackTime -> 1000
      [] p = kParamReleaseTime -> 5000
      [] OTHER -> 1

InRange(p, val) == ParamMin(p) <= val /\ val <= ParamMax(p)

-----------------------------------------------------------------------------
(* construct *)

SmoothingCoeffFirstOrder(updates) == DivFix(One, updates, One)

(* coeff = 1 - expf(-1 / updates), updates in Q12 *)
SmoothingCoeff(updates) == One - ExpNeg(DivFix(One, updates, One))

(* A buffer of kFftSize floats holds element i of the C array at i + 1 *)
ZeroBuffer == [i \in 1 .. kFftSize |-> 0]

Construct ==
    [ inputBuffer |-> ZeroBuffer,
      tempBuffer |-> ZeroBuffer,
      magnitude |-> [k \in 0 .. (half - 1) |-> 0],
      env |-> [b \in Bands |-> 0],
      potCentres |-> [b \in Bands |-> 0],
      potCentreBins |-> [b \in Bands |-> 0],
      attackCoeff |-> SmoothingCoeff(RoundDiv(6 * One, 10)),
      releaseCoeff |-> SmoothingCoeff(6 * One),
      bandwidthOctaves |-> RoundDiv(333 * One, 1000),
      samplesAccumulated |-> 0,
      samplesSinceLastFFT |-> 0,
      yScale |-> One,
      displayInitialized |-> FALSE,
      ingested |-> 0,
      passes |-> 0,
      trace |-> <<>> ]

-----------------------------------------------------------------------------
(* parameterChanged *)

EffectiveSampleRate44k(sr) == IF sr > 0 THEN sr ELSE 44100

(* (NT_globals.sampleRate > 0) ? (float)NT_globals.sampleRate : 48000.0f *)
EffectiveSampleRate(sr) == IF sr > 0 THEN sr ELSE kDefaultSampleRate

(* binHz = sampleRate / (float)kFftSize, in Q9 *)
BinHz(rate) == DivFix(rate, kFftSize, Bin)

CentreBinOfHalfWidth(freq, binHz) == DivFix(2 * freq * Bin, binHz, Bin)

(* potCentres[b] / binHz, in Q9 *)
CentreBin(freq, binHz) == DivFix(freq * Bin, binHz, Bin)

(* (timeMs / 1000.0f) * (float)kFftRateHz, in Q12 *)
UpdatesOf(timeMs) == RoundDiv(timeMs * kFftRateHz * One, 1000)

SetBandFreq(dd, b, freq, binHz) ==
    [dd EXCEPT !.potCentres[b] = freq,
               !.potCentreBins[b] = CentreBin(freq, binHz)]

ParameterChangedRestartingTimer(dd, vv, sr, paramIndex) ==
    LET binHz == BinHz(EffectiveSampleRate(sr)) IN
    CASE paramIndex = kParamBandAFreq -> SetBandFreq(dd, 0, vv[kParamBandAFreq], binHz)
      [] paramIndex = kParamBandBFreq -> SetBandFreq(dd, 1, vv[kParamBandBFreq], binHz)
      [] paramIndex = kParamBandCFreq -> SetBandFreq(dd, 2, vv[kParamBandCFreq], binHz)
      [] paramIndex = kParamBandwidth ->
            [dd EXCEPT !.bandwidthOctaves = RoundDiv(vv[kParamBandwidth] * One, 100),
                       !.samplesSinceLastFFT = 0]
      [] paramIndex = kParamAttackTime ->
            [dd EXCEPT !.attackCoeff = SmoothingCoeff(UpdatesOf(vv[kParamAttackTime])),
                       !.samplesSinceLastFFT = 0]
      [] paramIndex = kParamReleaseTime ->
            [dd EXCEPT !.releaseCoeff = SmoothingCoeff(UpdatesOf(vv[kParamReleaseTime])),
                       !.samplesSinceLastFFT = 0]
      [] OTHER -> dd

ParameterChanged(dd, vv, sr, paramIndex) ==
    LET binHz == BinHz(EffectiveSampleRate(sr)) IN
    CASE paramIndex = kParamBandAFreq -> SetBandFreq(dd, 0, vv[kParamBandAFreq], binHz)
      [] paramIndex = kParamBandBFreq -> SetBandFreq(dd, 1, vv[kParamBandBFreq], binHz)
      [] paramIndex = kParamBandCFreq -> SetBandFreq(dd, 2, vv[kParamBandCFreq], binHz)
      [] paramIndex = kParamBandwidth ->
            [dd EXCEPT !.bandwidthOctaves = RoundDiv(vv[kParamBandwidth] * One, 100)]
      [] paramIndex = kParamAttackTime ->
            [dd EXCEPT !.attackCoeff = SmoothingCoeff(UpdatesOf(vv[kParamAttackTime]))]
      [] paramIndex = kParamReleaseTime ->
            [dd EXCEPT !.releaseCoeff = SmoothingCoeff(UpdatesOf(vv[kParamReleaseTime]))]
      [] OTHER -> dd

-----------------------------------------------------------------------------
(* step: the analysis pass *)

(* (int)(sampleRate / (float)kFftRateHz): samples between analysis passes *)
FftInterval(rate) == TruncDiv(rate, kFftRateHz)

CopyWindowFromStart(inputBuffer, startIdx) == inputBuffer

(* tempBuffer[i] = inputBuffer[(startIdx + i) % kFftSize]: the buffer from *)
(* startIdx to its end, then from its start to startIdx - 1                *)
CopyWindow(inputBuffer, startIdx) ==
    SubSeq(inputBuffer, startIdx + 1, kFftSize) \o SubSeq(inputBuffer, 1, startIdx)

(* The Hann weight 0.5 * (1 - cosf(2 pi i / (kFftSize - 1))) is 0.0f at    *)
(* i = 0 and i = kFftSize - 1 and positive in between: the windowed buffer *)
(* is all zero exactly when tempBuffer[1 .. kFftSize - 2] is.              *)
WindowedSilent(temp) ==
    [temp EXCEPT ![1] = 0, ![kFftSize] = 0] = ZeroBuffer

(* Twice kHannWindowSum = 0.5 * (kFftSize - 1), the sum of the Hann weights *)
kHannWindowSum2 == kFftSize - 1

(* The family of magnitude spectra (Q4) a window may produce:              *)
(*   zero   every bin below the magnitude resolution (a very quiet window) *)
(*   dc     a full-scale constant: bin 0 at kHannWindowSum, bin 1 at half  *)
(*          of that                                                        *)
(*   loud   full-scale white noise: every bin at sqrt(3/8 * (N - 1))       *)
(*   tone   a full-scale sinusoid of kFftSize / ToneBin samples per cycle: *)
(*          bin ToneBin at kHannWindowSum / 2, its two neighbours at half  *)
(*          of that (64.06 against 127.75), the next two at 0.08, the      *)
(*          rest below the magnitude resolution                            *)
SpectrumIds == {"zero", "dc", "loud"}

ToneBin == kFftSize \div 64

MagnitudesZero == [k \in 0 .. (half - 1) |-> 0]

MagnitudesDc ==
    [k \in 0 .. (half - 1) |->
        IF k = 0 THEN (kHannWindowSum2 * MagOne) \div 2
        ELSE IF k = 1 THEN (kHannWindowSum2 * MagOne) \div 4 ELSE 0]

MagnitudesLoud ==
    LET noise == Sqrt((3 * kHannWindowSum2 * MagOne * MagOne) \div 8)
    IN  [k \in 0 .. (half - 1) |-> noise]

MagnitudesTone ==
    [k \in 0 .. (half - 1) |->
        CASE k = ToneBin -> (kHannWindowSum2 * MagOne) \div 4
          [] Abs(k - ToneBin) = 1 -> (kHannWindowSum2 * MagOne) \div 8 + 3
          [] Abs(k - ToneBin) = 2 -> 1
          [] OTHER -> 0]

Magnitudes(id) ==
    CASE id = "dc" -> MagnitudesDc
      [] id = "loud" -> MagnitudesLoud
      [] id = "tone" -> MagnitudesTone
      [] OTHER -> MagnitudesZero

TransformMagnitudesOfAny(temp, id) == Magnitudes(id)

(* magnitude[k] = sqrtf(re * re + im * im) of realFFT(tempBuffer) *)
TransformMagnitudes(temp, id) ==
    IF WindowedSilent(temp) THEN MagnitudesZero ELSE Magnitudes(id)

(* bandwidthBins = centreFreq * (powf(2, bandwidthOctaves) - 1) / binHz, Q9 *)
BandwidthBins(centreFreq, octaves, binHz) ==
    DivFix(centreFreq * (Pow2(octaves) - One), binHz, (Bin * Bin) \div One)

(* lo = (int)roundf(centreBin - bandwidthBins / 2), clamped below at 0 *)
BinLo(centreBin, bandwidthBins) ==
    LET lo == RoundDiv(2 * centreBin - bandwidthBins, 2 * Bin)
    IN  IF lo < 0 THEN 0 ELSE lo

(* hi = (int)roundf(centreBin + bandwidthBins / 2), clamped above at half-1 *)
BinHi(centreBin, bandwidthBins) ==
    LET hi == RoundDiv(2 * centreBin + bandwidthBins, 2 * Bin)
    IN  IF hi >= half THEN half - 1 ELSE hi

(* The scan of bins lo..hi (lo <= hi): <<peakMag, peakBin, powerSum>>.     *)
(* The loop keeps the first bin that holds the largest magnitude (lo when  *)
(* every magnitude is 0) and sums mag * mag * weight; the scan is split in *)
(* halves here, the left half winning ties, which gives the same triple.   *)
RECURSIVE ScanBins(_, _, _)
ScanBins(mag, lo, hi) ==
    IF lo = hi
    THEN LET weight == IF lo = 0 \/ lo = half THEN 1 ELSE 2
         IN  <<mag[lo], lo, mag[lo] * mag[lo] * weight>>
    ELSE LET mid == (lo + hi) \div 2
             left == ScanBins(mag, lo, mid)
             right == ScanBins(mag, mid + 1, hi)
         IN  IF right[1] > left[1]
             THEN <<right[1], right[2], left[3] + right[3]>>
             ELSE <<left[1], left[2], left[3] + right[3]>>

(* peakMag * peakScale, Q12: kPeakNormEdge = 1 / kHannWindowSum for bin 0  *)
(* and bin half, kPeakNormPositive = 2 / kHannWindowSum otherwise          *)
PeakEnergy(peakMag, peakBin) ==
    LET twice == IF peakBin = 0 \/ peakBin = half THEN 2 ELSE 4
    IN  RoundDiv(peakMag * (One \div MagOne) * twice, kHannWindowSum2)

(* kHannWindowRmsGain = 0.6117741f, in units of 1e-5 *)
kHannWindowRmsGain == 61177

kSqrtTwo == RoundDiv(141421 * One, 100000)

(* sqrtf(powerSum) * kFftRmsNormalization * kSqrtTwo, Q12, with           *)
(* kFftRmsNormalization = 1 / (kFftSize * kHannWindowRmsGain)             *)
RmsEnergy(powerSum) ==
    LET root == Sqrt(powerSum)
        rms == RoundDiv(RoundDiv(root * (One \div MagOne) * 1000, kFftSize) * 100,
                        kHannWindowRmsGain)
    IN  MulQ(rms, kSqrtTwo)

BandEnergyEmptyAsFull(mag, lo, hi, usePeakDetection) ==
    IF hi >= lo
    THEN LET acc == ScanBins(mag, lo, hi)
         IN  IF usePeakDetection THEN PeakEnergy(acc[1], acc[2])
             ELSE IF acc[3] > 0 THEN RmsEnergy(acc[3]) ELSE 0
    ELSE One

(* The instantaneous energy of one band before the clamp to [0, 1] *)
BandEnergy(mag, lo, hi, usePeakDetection) ==
    IF hi >= lo
    THEN LET acc == ScanBins(mag, lo, hi)
         IN  IF usePeakDetection THEN PeakEnergy(acc[1], acc[2])
             ELSE IF acc[3] > 0 THEN RmsEnergy(acc[3]) ELSE 0
    ELSE 0

ClampEnergyBelowOnly(e) == IF e < 0 THEN 0 ELSE e

(* if (env < 0) env = 0; else if (env > 1) env = 1; *)
ClampEnergy(e) == IF e < 0 THEN 0 ELSE IF e > One THEN One ELSE e

SmoothOvershoot(env, energy, attackCoeff, releaseCoeff) ==
    IF energy > env THEN env + 2 * ((attackCoeff * (energy - env)) \div One)
    ELSE env + 2 * ((releaseCoeff * (energy - env)) \div One)

SmoothSwapped(env, energy, attackCoeff, releaseCoeff) ==
    IF energy > env THEN env + MulQ(releaseCoeff, energy - env)
    ELSE env + MulQ(attackCoeff, energy - env)

(* Exponential smoothing with separate attack and release *)
Smooth(env, energy, attackCoeff, releaseCoeff) ==
    IF energy > env THEN env + MulQ(attackCoeff, energy - env)
    ELSE env + MulQ(releaseCoeff, energy - env)

(* The bin range <<lo, hi>> of band b in a pass *)
BandRange(dd, b, rate) ==
    LET binHz == BinHz(rate)
        bandwidthBins == BandwidthBins(dd.potCentres[b], dd.bandwidthOctaves, binHz)
    IN  <<BinLo(dd.potCentreBins[b], bandwidthBins),
          BinHi(dd.potCentreBins[b], bandwidthBins)>>

(* The clamped instantaneous energy of band b in a pass over spectrum mag *)
InstantEnergy(dd, mag, b, vv, rate) ==
    LET range == BandRange(dd, b, rate)
    IN  ClampEnergy(BandEnergy(mag, range[1], range[2], vv[kParamDetectionMode] = 1))

(* One analysis pass, run when the cursor stands at startIdx.  The pass is *)
(* also appended to the observation record dd.trace: where in the stream   *)
(* it ran, whether the window held only zeros, each band's bin range and   *)
(* clamped instantaneous energy, and the envelopes before and after.       *)
(* dd.tempBuffer is the scratch buffer as the copy loop leaves it, before  *)
(* the Hann weights are multiplied into it.                                *)
AnalysisPass(dd, startIdx, vv, rate, id) ==
    LET temp == CopyWindow(dd.inputBuffer, startIdx)
        mag == TransformMagnitudes(temp, id)
        energy == [b \in Bands |-> InstantEnergy(dd, mag, b, vv, rate)]
        env == [b \in Bands |->
                    Smooth(dd.env[b], energy[b], dd.attackCoeff, dd.releaseCoeff)]
    IN  [dd EXCEPT
            !.tempBuffer = temp,
            !.magnitude = mag,
            !.env = env,
            !.samplesSinceLastFFT = 0,
            !.passes = @ + 1,
            !.trace = Append(@, [at |-> dd.ingested,
                                 startIdx |-> startIdx,
                                 zeros |-> temp = ZeroBuffer,
                                 lo |-> [b \in Bands |-> BandRange(dd, b, rate)[1]],
                                 hi |-> [b \in Bands |-> BandRange(dd, b, rate)[2]],
                                 energy |-> energy,
                                 before |-> dd.env,
                                 after |-> env])]

-----------------------------------------------------------------------------
(* step: accumulation loop, scheduler, output stage *)

ValidBus(busIndex) == busIndex >= 1 /\ busIndex <= kMaxBus

PassDueIntervalOnly(counter, fftInterval) == counter >= fftInterval

PassDueAfterInterval(counter, fftInterval) ==
    counter > fftInterval \/ counter = kFftSize

(* samplesSinceLastFFT >= fftInterval || samplesSinceLastFFT == kFftSize *)
PassDue(counter, fftInterval) == counter >= fftInterval \/ counter = kFftSize

StepSampleWritingAfterAdvance(st, n, cx) ==
    LET idx1 == (st.idx + 1) % kFftSize
        d1 == [st.d EXCEPT !.inputBuffer[idx1 + 1] = cx.inBuf[n + 1],
                           !.samplesSinceLastFFT = @ + 1,
                           !.ingested = @ + 1]
    IN  IF d1.samplesSinceLastFFT >= cx.fftInterval \/ d1.samplesSinceLastFFT = kFftSize
        THEN [d |-> AnalysisPass(d1, idx1, cx.v, cx.rate, cx.orc[n + 1]),
              idx |-> idx1, k |-> st.k + 1]
        ELSE [d |-> d1, idx |-> idx1, k |-> st.k]

(* One iteration of the sample loop.  st = [d, idx, k]: the instance, the  *)
(* local cursor, and the number of passes run so far in this call.         *)
(* cx = [v, rate, fftInterval, inBuf, numFrames, orc]; orc[n + 1] is the   *)
(* spectrum of a pass run after sample n of the block.                     *)
StepSample(st, n, cx) ==
    LET d1 == [st.d EXCEPT !.inputBuffer[st.idx + 1] = cx.inBuf[n + 1],
                           !.samplesSinceLastFFT = @ + 1,
                           !.ingested = @ + 1]
        idx1 == (st.idx + 1) % kFftSize
    IN  IF PassDue(d1.samplesSinceLastFFT, cx.fftInterval)
        THEN [d |-> AnalysisPass(d1, idx1, cx.v, cx.rate, cx.orc[n + 1]),
              idx |-> idx1, k |-> st.k + 1]
        ELSE [d |-> d1, idx |-> idx1, k |-> st.k]

(* for (n = lo; n < hi; ++n): the iterations in order.  The range is split *)
(* in halves and the first half is evaluated before the second starts (its *)
(* cursor is read: it is always below kFftSize), which keeps the           *)
(* evaluation shallow for long blocks.                                     *)
RECURSIVE StepLoop(_, _, _, _)
StepLoop(st, lo, hi, cx) ==
    IF hi <= lo THEN st
    ELSE IF hi = lo + 1 THEN StepSample(st, lo, cx)
    ELSE LET mid == (lo + hi) \div 2
             first == StepLoop(st, lo, mid, cx)
         IN  IF first.idx < kFftSize THEN StepLoop(first, mid, hi, cx) ELSE first

PersistCursorAsCount(dd, idx) == [dd EXCEPT !.samplesAccumulated = dd.ingested]

PersistCursorDropped(dd, idx) == dd

(* d->samplesAccumulated = idx, after the loop *)
PersistCursor(dd, idx) == [dd EXCEPT !.samplesAccumulated = idx]

(* Utility: band envelope level -> volts, Q12 *)
EnvToVolts(env) == (IF env < 0 THEN 0 ELSE env) * kReferenceVoltage

(* The value band b holds on its output for the whole block *)
OutputValue(dd, b) == EnvToVolts(dd.env[b])

WriteBandReplaceOnly(blk, dd, vv, b, numFrames) ==
    LET outputBus == vv[kParamCvOut1 + b * 2]
    IN  IF outputBus >= 1 /\ outputBus <= kMaxBus
        THEN [blk EXCEPT ![outputBus] = [n \in 1 .. numFrames |-> kReferenceVoltage * dd.env[b]]]
        ELSE blk

(* Band b's output write on the bus block blk *)
WriteBand(blk, dd, vv, b, numFrames) ==
    LET outputBus == vv[kParamCvOut1 + b * 2]
        outModeAdd == vv[kParamCvOut1 + b * 2 + 1] # 0
        val == OutputValue(dd, b)
    IN  IF ValidBus(outputBus)
        THEN [blk EXCEPT ![outputBus] =
                [n \in 1 .. numFrames |-> IF outModeAdd THEN blk[outputBus][n] + val
                                          ELSE val]]
        ELSE blk

StepAcceptedIgnoringBase(vv, a) ==
    ~a.busNull /\ a.framesBy4 > 0 /\ vv[kParamInput] >= 1 /\ vv[kParamInput] <= kMaxBus

StepAcceptedAllRouted(vv, a) ==
    /\ ~a.baseNull /\ ~a.busNull /\ a.framesBy4 > 0
    /\ \A p \in {kParamInput, kParamCvOut1, kParamCvOut2, kParamCvOut3} :
            vv[p] >= 1 /\ vv[p] <= kMaxBus

(* The arguments of a step call: a.baseNull, a.busNull (null pointers),    *)
(* a.framesBy4, a.bus (the host's bus block, kMaxBus channels of           *)
(* framesBy4 * 4 frames), a.orc (the spectra of the call's passes).        *)
StepAccepted(vv, a) ==
    /\ ~a.baseNull /\ ~a.busNull /\ a.framesBy4 > 0
    /\ ValidBus(vv[kParamInput])

StartCursorClamped(c) == Min(Max(c, 0), kFftSize - 1)

(* The cursor an accepted step call starts writing at, given the persisted *)
(* cursor c it finds: idx = samplesAccumulated, reset to 0 when it is      *)
(* outside [0, kFftSize)                                                   *)
StartCursor(c) == IF c >= 0 /\ c < kFftSize THEN c ELSE 0

InputBlockAfterOutput(blk, dd, vv, numFrames) ==
    WriteBand(WriteBand(WriteBand(blk, dd, vv, 0, numFrames), dd, vv, 1, numFrames),
              dd, vv, 2, numFrames)[vv[kParamInput]]

(* inBuf = bus + (inputBus - 1) * numFrames, read by the sample loop       *)
(* before any output is written                                            *)
InputBlock(blk, dd, vv, numFrames) == blk[vv[kParamInput]]

OutputStageReversed(blk, dd, vv, numFrames) ==
    WriteBand(WriteBand(WriteBand(blk, dd, vv, 2, numFrames), dd, vv, 1, numFrames),
              dd, vv, 0, numFrames)

(* for (int b = 0; b < kNumBands; ++b): the bands' output writes           *)
OutputStage(blk, dd, vv, numFrames) ==
    WriteBand(WriteBand(WriteBand(blk, dd, vv, 0, numFrames), dd, vv, 1, numFrames),
              dd, vv, 2, numFrames)

(* step(): the instance and the bus block it leaves behind; k: the number  *)
(* of passes the call ran, rate: the sample rate it computed with          *)
StepFn(dd, vv, sr, a) ==
    IF ~StepAccepted(vv, a)
    THEN [d |-> dd, bus |-> a.bus, k |-> 0, rate |-> 0]
    ELSE
    LET numFrames == a.framesBy4 * 4
        inBuf == InputBlock(a.bus, dd, vv, numFrames)
        idx0 == StartCursor(dd.samplesAccumulated)
        d0 == [dd EXCEPT !.samplesAccumulated = idx0]
        rate == EffectiveSampleRate(sr)
        cx == [v |-> vv, rate |-> rate, fftInterval |-> FftInterval(rate),
               inBuf |-> inBuf, numFrames |-> numFrames, orc |-> a.orc]
        st == StepLoop([d |-> d0, idx |-> idx0, k |-> 0], 0, numFrames, cx)
        d1 == PersistCursor(st.d, st.idx)
    IN  [d |-> d1, bus |-> OutputStage(a.bus, d1, vv, numFrames), k |-> st.k,
         rate |-> rate]

-----------------------------------------------------------------------------
(* draw: the part that writes instance state (first-draw initialisation) *)

(* potCentreBins[i] recomputed and clipped to [0, kFftSize/2 - 1], Q9 *)
DrawCentreBin(freq, old, binHz) ==
    IF freq > 0
    THEN LET c == CentreBin(freq, binHz)
         IN  IF c < 0 THEN 0 ELSE IF c >= half * Bin THEN (half - 1) * Bin ELSE c
    ELSE old

(* 0.001f as a magnitude: below the Q4 resolution, it is held as the       *)
(* smallest positive magnitude so that it stays distinct from 0            *)
DrawSeedMagnitude == Max(1, RoundDiv(MagOne, 1000))

DrawFnClearingEnv(dd, sr) ==
    IF dd.displayInitialized THEN dd
    ELSE LET binHz == BinHz(EffectiveSampleRate(sr))
         IN  [dd EXCEPT
                !.potCentreBins = [i \in Bands |->
                    DrawCentreBin(dd.potCentres[i], dd.potCentreBins[i], binHz)],
                !.magnitude = [k \in 0 .. (half - 1) |-> DrawSeedMagnitude],
                !.env = [i \in Bands |-> 0],
                !.displayInitialized = TRUE]

(* draw(): what it writes to the instance, on the first call only *)
DrawFn(dd, sr) ==
    IF dd.displayInitialized THEN dd
    ELSE LET binHz == BinHz(EffectiveSampleRate(sr))
         IN  [dd EXCEPT
                !.potCentreBins = [i \in Bands |->
                    DrawCentreBin(dd.potCentres[i], dd.potCentreBins[i], binHz)],
                !.magnitude = [k \in 0 .. (half - 1) |-> DrawSeedMagnitude],
                !.displayInitialized = TRUE]

-----------------------------------------------------------------------------
(* customUi, setupUi *)

(* potToFreq: expf(minLog + norm * (maxLog - minLog)) = 20 * 1000 ^ norm,  *)
(* for a pot that stands at a whole number of thirds of its travel         *)
PotToFreq(thirds) == 20 * 10 ^ thirds

(* log2 of a Q12 number r >= 1, Q12: the largest y with 2 ^ y <= r *)
RECURSIVE Log2Search(_, _, _)
Log2Search(r, lo, hi) ==
    IF lo >= hi THEN lo
    ELSE LET mid == (lo + hi + 1) \div 2
         IN  IF Pow2(mid) <= r THEN Log2Search(r, mid, hi)
             ELSE Log2Search(r, lo, mid - 1)

Log2(r) == Log2Search(r, 0, 10 * One)

(* freqToPot: (logf(freq) - minLog) / (maxLog - minLog), Q12, freq >= 1 *)
FreqToPot(freq) ==
    LET span == Log2(1000 * One)
    IN  IF freq >= 20 THEN DivFix(Log2(DivFix(freq, 20, One)), span, One)
        ELSE -DivFix(Log2(DivFix(20, freq, One)), span, One)

(* NT_setParameterFromUi(algorithm, p, value): the host stores the value   *)
(* and calls parameterChanged.  st = [d, v].                               *)
SetParameterFromUi(st, sr, p, value) ==
    LET v1 == [st.v EXCEPT ![p] = value]
    IN  [d |-> ParameterChanged(st.d, v1, sr, p), v |-> v1]

(* The new vertical scale after encoder L moved by detents *)
ScaleAfter(yScale, detents) ==
    LET y == IF detents > 0 THEN 2 * yScale ELSE yScale \div 2
    IN  IF y < One \div 8 THEN One \div 8 ELSE IF y > 8 * One THEN 8 * One ELSE y

(* customUi(base, ui).  ui.controls: the pots that moved; ui.pots: the     *)
(* three pot positions in thirds; ui.encoders: detents of encoders L, R    *)
CustomUiFn(dd, vv, sr, ui) ==
    LET s0 == [d |-> dd, v |-> vv]
        s1 == IF "potL" \in ui.controls
              THEN SetParameterFromUi(s0, sr, kParamBandAFreq, PotToFreq(ui.pots[1]))
              ELSE s0
        s2 == IF "potC" \in ui.controls
              THEN SetParameterFromUi(s1, sr, kParamBandBFreq, PotToFreq(ui.pots[2]))
              ELSE s1
        s3 == IF "potR" \in ui.controls
              THEN SetParameterFromUi(s2, sr, kParamBandCFreq, PotToFreq(ui.pots[3]))
              ELSE s2
        s4 == IF ui.encoders[1] # 0
              THEN [s3 EXCEPT !.d.yScale = ScaleAfter(@, ui.encoders[1])]
              ELSE s3
    IN  IF ui.encoders[2] # 0
        THEN SetParameterFromUi(s4, sr, kParamDetectionMode,
                                IF s4.v[kParamDetectionMode] = 0 THEN 1 ELSE 0)
        ELSE s4

(* setupUi(base, pots): the pot positions it reports, Q12, clamped to [0, 1] *)
SetupUiFn(vv) ==
    [b \in Bands |->
        LET pot == FreqToPot(vv[kParamBandAFreq + b])
        IN  IF pot < 0 THEN 0 ELSE IF pot > One THEN One ELSE pot]

-----------------------------------------------------------------------------
(* The host: sample streams, bus blocks, parameter values *)

(* sin(2 pi t / period) in Q12, period even, by Bhaskara's rational        *)
(* approximation of a half wave: 16 q (h - q) / (5 h h - 4 q (h - q))      *)
Sine(t, period) ==
    LET h == period \div 2
        q == t % h
        wave == RoundDiv(16 * q * (h - q) * One, 5 * h * h - 4 * q * (h - q))
    IN  IF t % period < h THEN wave ELSE -wave

(* Sample t (0-based) of a stream.  "silence": all zeros; "loud": a        *)
(* full-scale alternation; "burst": loud for one window, then silence;     *)
(* "tone": a full-scale sinusoid that falls exactly on bin ToneBin;         *)
(* "ramp": sample t has the value t + 1, so no two samples are alike.      *)
InputSample(kind, t) ==
    CASE kind = "loud" -> IF t % 2 = 0 THEN One ELSE -One
      [] kind = "ramp" -> t + 1
      [] kind = "tone" -> Sine(t, kFftSize \div ToneBin)
      [] kind = "burst" -> IF t >= kFftSize THEN 0
                           ELSE IF t % 2 = 0 THEN One ELSE -One
      [] OTHER -> 0

(* The bus block the host hands to step: the stream on inputChannel (if    *)
(* it is a bus), bg volts on every other channel                           *)
HostBus(kind, t0, inputChannel, bg, numFrames) ==
    LET samples == [n \in 1 .. numFrames |-> InputSample(kind, t0 + n - 1)]
        other == [n \in 1 .. numFrames |-> bg]
    IN  [c \in 1 .. kMaxBus |-> IF c = inputChannel THEN samples ELSE other]

(* The spectra the passes of a block see: in a free stream, one spectrum   *)
(* for all the passes of the block                                         *)
Oracles(numFrames, ids) == {[n \in 1 .. numFrames |-> id] : id \in ids}

MaxSteps == 2
MaxParamChanges == 2
MaxDraws == 1

FrameChoices == {1, 2}
SampleRates == {0, 240}
BlockKinds == {"loud"}
Background == {3 * One}

(* Values the host sets a parameter to.  Routing parameters also take the  *)
(* values 0 and 29, which lie outside their declared range.                *)
ParamValues(p) ==
    CASE p = kParamInput -> {0}
      [] p = kParamCvOut1 -> {0}
      [] p = kParamCvOut2 -> {13}
      [] p = kParamCvOut3 -> {29}
      [] p \in {kParamCvOut1Mode, kParamCvOut2Mode} -> {1}
      [] p = kParamBandAFreq -> {20}
      [] p = kParamBandwidth -> {200}
      [] p = kParamAttackTime -> {1, 1000}
      [] p = kParamReleaseTime -> {10, 5000}
      [] p = kParamDetectionMode -> {1}
      [] OTHER -> {}

NoBus == [c \in 1 .. kMaxBus |-> <<>>]

(* call.op: the handler; rate: the sample rate it computed with; for step: *)
(* the arguments (baseNull, busNull, framesBy4), the samples ingested      *)
(* before the call (before), the persisted cursor it found (cursor) and    *)
(* the passes it ran; for parameterChanged:                                *)
(* the parameter (param); for setupUi: the pot positions it reported; for  *)
(* a transform routine: its arguments and what it touched (fft)            *)
NoCall == [op |-> "construct", baseNull |-> FALSE, busNull |-> FALSE,
           framesBy4 |-> 0, before |-> 0, passes |-> 0, rate |-> 0, param |-> 0,
           pots |-> <<>>, fft |-> <<>>, cursor |-> 0]

(* No call made yet: steps, parameter changes, draws, user-interface calls *)
(* and changes of the host's sample rate                                   *)
NoCalls == [step |-> 0, param |-> 0, draw |-> 0, ui |-> 0, rate |-> 0]

-----------------------------------------------------------------------------
(* The instance under the host's calls *)

Init ==
    /\ d = Construct
    /\ d2 = Construct
    /\ v = [p \in Params |-> ParamDefault(p)]
    /\ sampleRate \in SampleRates
    /\ stream = "free"
    /\ bus = [entry |-> NoBus, exit |-> NoBus]
    /\ call = NoCall
    /\ calls = NoCalls

(* step(base, bus, framesBy4) *)
StepCall(a) ==
    \E r \in {StepFn(d, v, sampleRate, a)} :
        /\ d' = r.d
        /\ bus' = [entry |-> a.bus, exit |-> r.bus]
        /\ call' = [NoCall EXCEPT !.op = "step",
                                  !.baseNull = a.baseNull,
                                  !.busNull = a.busNull,
                                  !.framesBy4 = a.framesBy4,
                                  !.before = d.ingested,
                                  !.cursor = d.samplesAccumulated,
                                  !.passes = r.k,
                                  !.rate = r.rate]
        /\ calls' = [calls EXCEPT !.step = Min(@ + 1, MaxSteps)]
        /\ UNCHANGED <<d2, v, sampleRate, stream>>

(* A well-formed call: the host hands over a block of the stream *)
Step ==
    /\ calls.step < MaxSteps
    /\ \E framesBy4 \in FrameChoices, kind \in BlockKinds, bg \in Background :
         \E orc \in Oracles(framesBy4 * 4, SpectrumIds) :
            StepCall([baseNull |-> FALSE, busNull |-> FALSE,
                      framesBy4 |-> framesBy4,
                      bus |-> HostBus(kind, d.ingested, v[kParamInput], bg,
                                      framesBy4 * 4),
                      orc |-> orc])

(* A call step must ignore: null pointer or no frames *)
BadStep ==
    /\ calls.step < MaxSteps
    /\ \E bad \in {"base", "bus", "zero", "negative"}, bg \in Background :
            StepCall([baseNull |-> bad = "base", busNull |-> bad = "bus",
                      framesBy4 |-> CASE bad = "zero" -> 0
                                      [] bad = "negative" -> -1
                                      [] OTHER -> 1,
                      bus |-> HostBus("loud", d.ingested, v[kParamInput], bg, 4),
                      orc |-> [n \in 1 .. 4 |-> "dc"]])

(* The host stores a new value and calls parameterChanged(base, p) *)
SetParameter ==
    /\ calls.param < MaxParamChanges
    /\ \E p \in Params : \E val \in ParamValues(p) :
         /\ v' = [v EXCEPT ![p] = val]
         /\ d' = ParameterChanged(d, v', sampleRate, p)
         /\ call' = [NoCall EXCEPT !.op = "parameterChanged", !.param = p,
                                   !.rate = EffectiveSampleRate(sampleRate)]
         /\ calls' = [calls EXCEPT !.param = @ + 1]
         /\ UNCHANGED <<d2, sampleRate, stream, bus>>

(* draw(base) *)
Draw ==
    /\ calls.draw < MaxDraws
    /\ d' = DrawFn(d, sampleRate)
    /\ call' = [NoCall EXCEPT !.op = "draw",
                              !.rate = EffectiveSampleRate(sampleRate)]
    /\ calls' = [calls EXCEPT !.draw = @ + 1]
    /\ UNCHANGED <<d2, v, sampleRate, stream, bus>>

Next == Step \/ BadStep \/ SetParameter \/ Draw

Spec == Init /\ [][Next]_vars

-----------------------------------------------------------------------------
(* Long runs: the host plays a scripted stream in large blocks *)

(* The spectrum a scripted stream shows to a pass run after t samples *)
ScriptSpectrum(kind, t) ==
    CASE kind = "burst" -> "dc"
      [] kind = "tone" -> "tone"
      [] kind = "loud" -> CASE (t \div 5) % 3 = 0 -> "dc"
                            [] (t \div 5) % 3 = 1 -> "loud"
                            [] OTHER -> "zero"
      [] OTHER -> "zero"

ScriptedCall(dd, framesBy4) ==
    [baseNull |-> FALSE, busNull |-> FALSE, framesBy4 |-> framesBy4,
     bus |-> HostBus(stream, dd.ingested, v[kParamInput], 0, framesBy4 * 4),
     orc |-> [n \in 1 .. (framesBy4 * 4) |-> ScriptSpectrum(stream, dd.ingested + n)]]

LongFrameChoices == {8, 24}

(* <<sample rate, stream>> *)
LongScenarios ==
    {<<48000, "silence">>, <<240, "silence">>,
     <<0, "burst">>, <<30000, "burst">>, <<240, "burst">>}

(* How many windows of silence follow the burst *)
SilentWindows == 4

(* A silent stream is played for one second, a burst for its window and   *)
(* the silent windows after it                                             *)
Horizon ==
    IF stream = "silence" THEN EffectiveSampleRate(sampleRate)
    ELSE kFftSize * (1 + SilentWindows)

LongInit ==
    /\ d = Construct
    /\ d2 = Construct
    /\ v = [p \in Params |-> ParamDefault(p)]
    /\ \E sc \in LongScenarios : sampleRate = sc[1] /\ stream = sc[2]
    /\ bus = [entry |-> NoBus, exit |-> NoBus]
    /\ call = NoCall
    /\ calls = NoCalls

LongStep ==
    /\ d.ingested < Horizon
    /\ \E framesBy4 \in LongFrameChoices : StepCall(ScriptedCall(d, framesBy4))

LongNext == LongStep

LongSpec == LongInit /\ [][LongNext]_vars

-----------------------------------------------------------------------------
(* Two instances: the same stream, parameters and sample rate, cut into    *)
(* blocks differently.  The first instance takes blocks of 4 or 12 frames, *)
(* the second blocks of 8, and whichever has ingested less steps next.     *)

PairFramesA == {1, 3}
PairFramesB == {2}
PairRates == {360, 48000}
MaxPairSamples == 576

PairInit ==
    /\ d = Construct
    /\ d2 = Construct
    /\ v = [p \in Params |-> ParamDefault(p)]
    /\ sampleRate \in PairRates
    /\ stream = "loud"
    /\ bus = [entry |-> NoBus, exit |-> NoBus]
    /\ call = NoCall
    /\ calls = NoCalls

PairStepA ==
    /\ d.ingested < MaxPairSamples
    /\ d.ingested <= d2.ingested
    /\ \E framesBy4 \in PairFramesA : StepCall(ScriptedCall(d, framesBy4))

PairStepB ==
    /\ d2.ingested < MaxPairSamples
    /\ d2.ingested <= d.ingested
    /\ \E framesBy4 \in PairFramesB :
         /\ d2' = StepFn(d2, v, sampleRate, ScriptedCall(d2, framesBy4)).d
         /\ UNCHANGED <<d, v, sampleRate, stream, bus, call, calls>>

PairNext == PairStepA \/ PairStepB

PairSpec == PairInit /\ [][PairNext]_vars

-----------------------------------------------------------------------------
(* Band extraction: the host plays the tone in blocks of one window, sets  *)
(* band frequencies, bandwidth and detection mode, and may change its      *)
(* sample rate.  At both rates the analysis interval exceeds kFftSize, so  *)
(* every pass sees a whole window of the tone.                             *)

BandRates == {48000, 32000}
BandFrames == kFftSize \div 4
MaxBandSteps == 2
MaxBandParamChanges == 2
MaxRateChanges == 1

BandParamValues(p) ==
    CASE p = kParamBandAFreq -> {750, 20000}
      [] p = kParamBandBFreq -> {1000}
      [] p = kParamBandwidth -> {10, 33, 200}
      [] p = kParamDetectionMode -> {1}
      [] OTHER -> {}

BandInit ==
    /\ d = Construct
    /\ d2 = Construct
    /\ v = [p \in Params |-> ParamDefault(p)]
    /\ sampleRate \in BandRates
    /\ stream = "tone"
    /\ bus = [entry |-> NoBus, exit |-> NoBus]
    /\ call = NoCall
    /\ calls = NoCalls

BandStep ==
    /\ calls.step < MaxBandSteps
    /\ StepCall(ScriptedCall(d, BandFrames))

(* The host stores val in parameter p and calls parameterChanged(base, p) *)
SetParameterTo(p, val) ==
    /\ v' = [v EXCEPT ![p] = val]
    /\ d' = ParameterChanged(d, v', sampleRate, p)
    /\ call' = [NoCall EXCEPT !.op = "parameterChanged", !.param = p,
                              !.rate = EffectiveSampleRate(sampleRate)]
    /\ UNCHANGED <<d2, sampleRate, stream, bus>>

BandSetParameter ==
    /\ calls.param < MaxBandParamChanges
    /\ \E p \in Params : \E val \in BandParamValues(p) :
         /\ SetParameterTo(p, val)
         /\ calls' = [calls EXCEPT !.param = @ + 1]

(* The host changes NT_globals.sampleRate; it calls no handler for it *)
ChangeSampleRate ==
    /\ calls.rate < MaxRateChanges
    /\ sampleRate' \in BandRates \ {sampleRate}
    /\ call' = [NoCall EXCEPT !.op = "sampleRate"]
    /\ calls' = [calls EXCEPT !.rate = @ + 1]
    /\ UNCHANGED <<d, d2, v, stream, bus>>

BandNext == BandStep \/ BandSetParameter \/ ChangeSampleRate

BandSpec == BandInit /\ [][BandNext]_vars

-----------------------------------------------------------------------------
(* The user interface: the host runs short blocks, draws, and hands pot    *)
(* and encoder movements to customUi; setupUi reports the pot positions.   *)

UiRates == {240}
UiSpectra == {"dc", "zero"}
MaxUiCalls == 2
MaxUiParamChanges == 1

(* Pot and encoder movements *)
UiInputs ==
    {[controls |-> {"potL"}, pots |-> <<1, 0, 0>>, encoders |-> <<0, 0>>],
     [controls |-> {"potC", "potR"}, pots |-> <<0, 2, 3>>, encoders |-> <<1, 0>>],
     [controls |-> {}, pots |-> <<0, 0, 0>>, encoders |-> <<-1, 1>>]}

UiParamValues(p) ==
    CASE p = kParamAttackTime -> {1000}
      [] p = kParamReleaseTime -> {10}
      [] OTHER -> {}

UiInit ==
    /\ d = Construct
    /\ d2 = Construct
    /\ v = [p \in Params |-> ParamDefault(p)]
    /\ sampleRate \in UiRates
    /\ stream = "free"
    /\ bus = [entry |-> NoBus, exit |-> NoBus]
    /\ call = NoCall
    /\ calls = NoCalls

UiStep ==
    /\ calls.step < MaxSteps
    /\ \E bg \in Background : \E orc \in Oracles(4, UiSpectra) :
            StepCall([baseNull |-> FALSE, busNull |-> FALSE, framesBy4 |-> 1,
                      bus |-> HostBus("loud", d.ingested, v[kParamInput], bg, 4),
                      orc |-> orc])

UiSetParameter ==
    /\ calls.param < MaxUiParamChanges
    /\ \E p \in Params : \E val \in UiParamValues(p) :
         /\ SetParameterTo(p, val)
         /\ calls' = [calls EXCEPT !.param = @ + 1]

(* customUi(base, ui) *)
CustomUi ==
    /\ calls.ui < MaxUiCalls
    /\ \E ui \in UiInputs : \E r \in {CustomUiFn(d, v, sampleRate, ui)} :
         /\ d' = r.d
         /\ v' = r.v
         /\ call' = [NoCall EXCEPT !.op = "customUi",
                                   !.rate = EffectiveSampleRate(sampleRate)]
         /\ calls' = [calls EXCEPT !.ui = @ + 1]
         /\ UNCHANGED <<d2, sampleRate, stream, bus>>

(* setupUi(base, pots) *)
SetupUi ==
    /\ calls.ui < MaxUiCalls
    /\ call' = [NoCall EXCEPT !.op = "setupUi", !.pots = SetupUiFn(v)]
    /\ calls' = [calls EXCEPT !.ui = @ + 1]
    /\ UNCHANGED <<d, d2, v, sampleRate, stream, bus>>

UiNext == UiStep \/ UiSetParameter \/ Draw \/ CustomUi \/ SetupUi

UiSpec == UiInit /\ [][UiNext]_vars

-----------------------------------------------------------------------------
(* Slow hosts: sample rates below kFftRateHz, for which the analysis       *)
(* interval (int)(sampleRate / 60) is 0                                    *)

SlowRates == {1, 30, 59}
SlowFrameChoices == {1, 3}
MaxSlowSamples == 520

SlowInit ==
    /\ d = Construct
    /\ d2 = Construct
    /\ v = [p \in Params |-> ParamDefault(p)]
    /\ sampleRate \in SlowRates
    /\ stream = "loud"
    /\ bus = [entry |-> NoBus, exit |-> NoBus]
    /\ call = NoCall
    /\ calls = NoCalls

SlowStep ==
    /\ d.ingested < MaxSlowSamples
    /\ \E framesBy4 \in SlowFrameChoices : StepCall(ScriptedCall(d, framesBy4))

SlowNext == SlowStep

SlowSpec == SlowInit /\ [][SlowNext]_vars

-----------------------------------------------------------------------------
(* Properties of the scheduler over long runs *)

(* The passes run during the first second of audio: those run when at     *)
(* most sampleRate samples had been ingested                               *)
FirstSecondPasses ==
    Cardinality({i \in 1 .. Len(d.trace) :
                    d.trace[i].at <= EffectiveSampleRate(sampleRate)})

(* C1: once a full second of audio (sampleRate samples) has been ingested, *)
(* the number of analysis passes run during that second is within one of  *)
(* the target rate kFftRateHz = 60, whatever the sample rate and blocks.   *)
C1_PassesPerSecond ==
    d.ingested >= EffectiveSampleRate(sampleRate) =>
        /\ FirstSecondPasses >= kFftRateHz - 1
        /\ FirstSecondPasses <= kFftRateHz + 1

(* C2: from a fresh instance, once kFftSize = 512 samples have been        *)
(* ingested a first analysis pass has run, and it ran no later than the    *)
(* 512th sample, for every sample rate and block partition.                *)
C2_FirstPassByWindow ==
    d.ingested >= kFftSize => (d.passes >= 1 /\ d.trace[1].at <= kFftSize)

(* A run whose first pass ran exactly at the 512th sample *)
C2_Witness ==
    /\ d.ingested >= kFftSize
    /\ d.passes = 1
    /\ d.trace[1].at = kFftSize
    /\ FftInterval(EffectiveSampleRate(sampleRate)) > kFftSize

(* C10: after a burst, once SilentWindows whole windows of all-zero        *)
(* samples have been ingested, all three envelopes are exactly 0.          *)
C10_SilenceReachesZero ==
    (stream = "burst" /\ d.ingested >= kFftSize * (1 + SilentWindows)) =>
        \A b \in Bands : d.env[b] = 0

(* C10, as the code has it: a pass over an all-zero window sees energy 0   *)
(* in all three bands and releases each envelope toward 0: the envelope    *)
(* does not rise, does not go below 0, stays 0 once it is 0, and falls     *)
(* whenever releaseCoeff * env is at least one unit of resolution.         *)
C10_SilenceDecays ==
    \A i \in 1 .. Len(d.trace) :
        d.trace[i].zeros =>
            \A b \in Bands :
                /\ d.trace[i].energy[b] = 0
                /\ d.trace[i].after[b] >= 0
                /\ d.trace[i].after[b] <= d.trace[i].before[b]
                /\ (d.trace[i].before[b] * d.releaseCoeff >= One =>
                        d.trace[i].after[b] < d.trace[i].before[b])

(* SilentWindows windows of silence after a burst: the last pass saw an    *)
(* all-zero window and lowered an envelope that is still above 0           *)
C10_Witness ==
    /\ stream = "burst"
    /\ d.ingested >= kFftSize * (1 + SilentWindows)
    /\ d.trace[Len(d.trace)].zeros
    /\ d.trace[Len(d.trace)].after[0] < d.trace[Len(d.trace)].before[0]
    /\ d.env[0] > 0

-----------------------------------------------------------------------------
(* Independence of the block partition *)

(* The pipeline state of an instance *)
PipelineState(dd) ==
    [inputBuffer |-> dd.inputBuffer,
     samplesAccumulated |-> dd.samplesAccumulated,
     samplesSinceLastFFT |-> dd.samplesSinceLastFFT,
     env |-> dd.env,
     passes |-> dd.passes]

(* C5: two instances with the same parameters, routing and sample rate,    *)
(* fed the same stream under different block partitions, hold the same     *)
(* buffer, cursor, counter, envelopes and pass count whenever they have    *)
(* ingested the same number of samples.                                    *)
C5_PartitionIndependent ==
    d.ingested = d2.ingested => PipelineState(d) = PipelineState(d2)

(* Both instances have ingested the same samples, more than one window of  *)
(* them, in different blocks, and their envelopes have moved               *)
C5_Witness ==
    /\ d.ingested = d2.ingested
    /\ d.ingested > kFftSize
    /\ d.passes >= 2
    /\ d2.env[0] > 0
    /\ d.samplesAccumulated = d.ingested % kFftSize

-----------------------------------------------------------------------------
(* Properties of single calls *)

(* The last call was a step call that step must ignore *)
Rejected ==
    \/ call.baseNull \/ call.busNull \/ call.framesBy4 <= 0
    \/ v[kParamInput] < 1 \/ v[kParamInput] > kMaxBus

(* The last call was a step call with valid arguments and input routing *)
Ingesting == call.op = "step" /\ ~Rejected

OutBus(b) == v[kParamCvOut1 + 2 * b]
AddMode(b) == v[kParamCvOut1 + 2 * b + 1] # 0
Routed(b) == OutBus(b) >= 1 /\ OutBus(b) <= kMaxBus

(* The voltage of band b's envelope as it stands now *)
Volts(b) == kReferenceVoltage * d.env[b]

(* Sample x of channel c after band b's turn *)
AfterBand(b, c, x) ==
    IF OutBus(b) = c THEN (IF AddMode(b) THEN x + Volts(b) ELSE Volts(b)) ELSE x

(* Frame n of channel c after the three bands' turns, band A first *)
Held(c, n) == AfterBand(2, c, AfterBand(1, c, AfterBand(0, c, bus.entry[c][n])))

(* C3: every envelope lies in [0, 1]; and after a step call every sample   *)
(* of a bus whose last writer is a band in replace mode lies in [0, 10] V. *)
C3_EnvelopeAndOutputRange ==
    /\ \A b \in Bands : d.env[b] >= 0 /\ d.env[b] <= One
    /\ Ingesting =>
         \A b \in Bands :
            (/\ Routed(b) /\ ~AddMode(b)
             /\ \A b2 \in Bands : b2 > b => OutBus(b2) # OutBus(b)) =>
                \A n \in 1 .. (4 * call.framesBy4) :
                    /\ bus.exit[OutBus(b)][n] >= 0
                    /\ bus.exit[OutBus(b)][n] <= kReferenceVoltage * One

(* A pass measured full energy in band A, and the step wrote band A's      *)
(* voltage in replace mode                                                 *)
C3_Witness ==
    /\ Ingesting /\ call.passes >= 1
    /\ d.trace[Len(d.trace)].energy[0] = One
    /\ d.env[0] > One \div 2
    /\ Routed(0) /\ ~AddMode(0)
    /\ bus.exit[OutBus(0)][1] = kReferenceVoltage * d.env[0]

(* C4: after a step call with valid routing, every frame of every channel  *)
(* holds what the three bands' writes make of the host's content: a band   *)
(* in replace mode leaves its end-of-block voltage, a band in add mode     *)
(* adds it, in all frames alike, however many passes ran in the block.     *)
C4_HeldOutput ==
    Ingesting =>
        \A c \in 1 .. kMaxBus : \A n \in 1 .. (4 * call.framesBy4) :
            bus.exit[c][n] = Held(c, n)

(* Two passes ran inside the block; band A added its voltage to the host's *)
(* content and band B replaced it                                          *)
C4_Witness ==
    /\ Ingesting /\ call.passes >= 2
    /\ d.env[0] > 0 /\ d.env[0] # d.trace[Len(d.trace) - 1].after[0]
    /\ Routed(0) /\ AddMode(0) /\ OutBus(1) # OutBus(0) /\ OutBus(2) # OutBus(0)
    /\ bus.entry[OutBus(0)][2] > 0
    /\ bus.exit[OutBus(0)][2] = bus.entry[OutBus(0)][2] + Volts(0)
    /\ Routed(1) /\ ~AddMode(1) /\ bus.exit[OutBus(1)][2] = Volts(1)

(* C6: a step call with a null pointer, no frames or an input bus outside  *)
(* 1..28 leaves the whole instance state and every bus sample as they were *)
C6_RejectedStepIsNoOp ==
    [][(call'.op = "step" /\ Rejected') => (d' = d /\ bus'.exit = bus'.entry)]_vars

(* A step call was rejected for its input bus after samples had been       *)
(* ingested and envelopes had moved                                        *)
C6_Witness ==
    /\ call.op = "step" /\ Rejected
    /\ v[kParamInput] = 0 /\ ~call.baseNull /\ ~call.busNull /\ call.framesBy4 > 0
    /\ d.ingested > 0 /\ d.env[0] > 0

(* C7: in an accepted step call with some band's output bus outside 1..28, *)
(* the block is ingested, every pass of the call smooths every band's      *)
(* envelope (the unrouted band's too), channels no routed band targets are *)
(* left as they were, and a routed band that is alone on its bus puts its  *)
(* voltage there.                                                          *)
C7_UnroutedBandSkipped ==
    (Ingesting /\ \E b \in Bands : ~Routed(b)) =>
        /\ d.ingested = call.before + 4 * call.framesBy4
        /\ Len(d.trace) >= call.passes
        /\ \A i \in (Len(d.trace) - call.passes + 1) .. Len(d.trace) :
             \A b \in Bands :
                d.trace[i].after[b] =
                    IF d.trace[i].energy[b] > d.trace[i].before[b]
                    THEN d.trace[i].before[b]
                         + MulQ(d.attackCoeff, d.trace[i].energy[b] - d.trace[i].before[b])
                    ELSE d.trace[i].before[b]
                         + MulQ(d.releaseCoeff, d.trace[i].energy[b] - d.trace[i].before[b])
        /\ (call.passes > 0 => d.env = d.trace[Len(d.trace)].after)
        /\ \A c \in 1 .. kMaxBus :
             (\A b \in Bands : OutBus(b) # c) => bus.exit[c] = bus.entry[c]
        /\ \A b \in Bands :
             (Routed(b) /\ \A b2 \in Bands : b2 # b => OutBus(b2) # OutBus(b)) =>
                \A n \in 1 .. (4 * call.framesBy4) :
                    bus.exit[OutBus(b)][n] =
                        IF AddMode(b) THEN bus.entry[OutBus(b)][n] + Volts(b)
                        ELSE Volts(b)

(* Band A is unrouted; a pass in the block raised its envelope all the     *)
(* same, and band B's voltage was written                                  *)
C7_Witness ==
    /\ Ingesting /\ ~Routed(0) /\ call.passes >= 1
    /\ d.env[0] > d.trace[Len(d.trace)].before[0]
    /\ Routed(1) /\ d.env[1] > 0 /\ bus.exit[OutBus(1)][1] = Volts(1)

(* A handler of the last call computed with a sample rate *)
RateUsed == Ingesting \/ call.op = "parameterChanged" \/ call.op = "draw"

(* The centre bin draw caches for a frequency at a sample rate *)
ClippedCentreBin(freq, rate) ==
    Min((half - 1) * Bin, Max(0, CentreBin(freq, BinHz(rate))))

(* C8: every handler computes with a positive sample rate, and with 48000  *)
(* when the host's rate is not positive: step ingests its block and uses   *)
(* the interval of 48000, parameterChanged and the first draw place the    *)
(* centre bins with the bin width of 48000.                                *)
C8_DefaultSampleRate ==
    /\ RateUsed =>
         /\ call.rate > 0
         /\ FftInterval(call.rate) >= 0 /\ BinHz(call.rate) > 0
    /\ (RateUsed /\ sampleRate <= 0) =>
         /\ call.rate = kDefaultSampleRate
         /\ Ingesting => d.ingested = call.before + 4 * call.framesBy4
         /\ \A b \in Bands :
              (call.op = "parameterChanged" /\ call.param = kParamBandAFreq + b) =>
                 d.potCentreBins[b] =
                    CentreBin(v[kParamBandAFreq + b], BinHz(kDefaultSampleRate))
         /\ \A b \in Bands :
              (call.op = "draw" /\ d.potCentres[b] > 0) =>
                 d.potCentreBins[b] =
                    ClippedCentreBin(d.potCentres[b], kDefaultSampleRate)

(* With the host's rate unset, a band frequency was set, the display was   *)
(* initialised and a block was ingested                                    *)
C8_Witness ==
    /\ sampleRate = 0
    /\ Ingesting /\ call.rate = kDefaultSampleRate
    /\ d.displayInitialized
    /\ d.potCentres[0] > 0 /\ d.potCentreBins[0] > 0

(* The smallest coefficients in-range attack and release times give *)
MinAttackCoeff == SmoothingCoeff(UpdatesOf(ParamMax(kParamAttackTime)))
MinReleaseCoeff == SmoothingCoeff(UpdatesOf(ParamMax(kParamReleaseTime)))

(* C9: a pass that measures energy 1 in a band does not lower the band's   *)
(* envelope nor take it above 1, and raises it whenever the distance to 1  *)
(* times the smallest attack coefficient is a unit of resolution or more;  *)
(* a pass that measures energy 0 does not raise the envelope nor take it   *)
(* below 0, and lowers it whenever the envelope times the smallest release *)
(* coefficient is a unit of resolution or more.                            *)
C9_MonotoneAttackRelease ==
    \A i \in 1 .. Len(d.trace) : \A b \in Bands :
        LET p == d.trace[i] IN
        /\ p.energy[b] = One =>
             /\ p.before[b] <= p.after[b] /\ p.after[b] <= One
             /\ (One - p.before[b]) * MinAttackCoeff >= One => p.after[b] > p.before[b]
        /\ p.energy[b] = 0 =>
             /\ p.after[b] <= p.before[b] /\ p.after[b] >= 0
             /\ p.before[b] * MinReleaseCoeff >= One => p.after[b] < p.before[b]

(* Band A: energy 1 in two passes running, the envelope rising from 0 in   *)
(* both, then energy 0 and the envelope falling without reaching 0         *)
C9_Witness ==
    /\ Len(d.trace) >= 3
    /\ d.trace[1].before[0] = 0
    /\ d.trace[1].energy[0] = One /\ d.trace[2].energy[0] = One
    /\ d.trace[1].after[0] > 0 /\ d.trace[2].after[0] > d.trace[1].after[0]
    /\ d.trace[3].energy[0] = 0
    /\ d.trace[3].after[0] < d.trace[2].after[0] /\ d.trace[3].after[0] > 0

-----------------------------------------------------------------------------
(* Properties of band extraction *)

(* The last pass ran in the last call, and no draw has touched the         *)
(* spectrum since: d.magnitude is the spectrum that pass extracted from    *)
LastPass == d.trace[Len(d.trace)]
PassJustRan == Ingesting /\ call.passes >= 1

(* C11: in an analysis pass, a band whose bin range is empty (hi < lo) or  *)
(* starts beyond the spectrum has instantaneous energy exactly 0, and so   *)
(* has a band whose bins all hold magnitude 0 (peak magnitude and power    *)
(* sum zero), in peak and in RMS mode; no band's energy is negative.       *)
C11_DegenerateBandIsZero ==
    /\ \A i \in 1 .. Len(d.trace) : \A b \in Bands :
         /\ d.trace[i].energy[b] >= 0
         /\ d.trace[i].hi[b] < d.trace[i].lo[b] => d.trace[i].energy[b] = 0
         /\ d.trace[i].lo[b] > half - 1 => d.trace[i].energy[b] = 0
    /\ PassJustRan =>
         \A b \in Bands :
            (\A k \in LastPass.lo[b] .. LastPass.hi[b] : d.magnitude[k] = 0) =>
                LastPass.energy[b] = 0

(* A pass over the tone in peak mode: band A (20000 Hz at 32000 Hz) lies   *)
(* beyond the spectrum, band C covers a bin that holds magnitude 0         *)
C11_Witness ==
    /\ PassJustRan /\ v[kParamDetectionMode] = 1
    /\ d.magnitude[ToneBin] > 0
    /\ LastPass.lo[0] > half - 1 /\ LastPass.hi[0] < LastPass.lo[0]
    /\ LastPass.energy[0] = 0
    /\ LastPass.lo[2] <= LastPass.hi[2] /\ d.magnitude[LastPass.lo[2]] = 0
    /\ LastPass.energy[2] = 0

(* The last pass ran at 48000 Hz with band B centred at 1000 Hz, its       *)
(* centre bin cached at that rate, and the bandwidth parameter at 33 %     *)
ScenarioBandB ==
    /\ PassJustRan /\ call.rate = 48000
    /\ v[kParamBandwidth] = 33
    /\ d.potCentres[1] = 1000
    /\ d.potCentreBins[1] = CentreBin(1000, BinHz(48000))

(* C12: at 48000 Hz, for a band centred at 1000 Hz with bandwidth 33 %,    *)
(* the extractor's bin range runs from about bin 20 to about bin 22 (each  *)
(* end within one bin of those).                                           *)
C12_RangeNear20To22 ==
    ScenarioBandB =>
        /\ LastPass.lo[1] >= 19 /\ LastPass.lo[1] <= 21
        /\ LastPass.hi[1] >= 21 /\ LastPass.hi[1] <= 23

(* C12, as the code has it: the centre is bin 1000 / 93.75 = 10.67 and the *)
(* range is exactly bins 9 to 12.                                          *)
C12_RangeIs9To12 ==
    ScenarioBandB => (LastPass.lo[1] = 9 /\ LastPass.hi[1] = 12)

(* The scenario, with the bandwidth set through parameterChanged *)
C12_Witness ==
    /\ ScenarioBandB
    /\ d.bandwidthOctaves = RoundDiv(33 * One, 100)
    /\ LastPass.lo[1] = 9 /\ LastPass.hi[1] = 12
    /\ LastPass.energy[1] > 0

(* The tolerance of the calibration: 5 % of full scale *)
CalibrationTolerance == RoundDiv(5 * One, 100)

(* The last pass extracted from the spectrum of the full-scale tone, and   *)
(* band b's range is not empty and has the tone's bin at its centre        *)
ToneCentred(b) ==
    /\ PassJustRan /\ d.magnitude = MagnitudesTone
    /\ d.potCentreBins[b] = ToneBin * Bin
    /\ LastPass.lo[b] <= LastPass.hi[b]
    /\ LastPass.lo[b] + LastPass.hi[b] = 2 * ToneBin

(* C13: a full-scale sinusoid exactly centred in a band's non-empty bin    *)
(* range gives that band an instantaneous energy within the tolerance of   *)
(* 1.0, in peak mode and in RMS mode, whatever the bandwidth.              *)
C13_ToneCalibrated ==
    \A b \in Bands :
        ToneCentred(b) => Abs(LastPass.energy[b] - One) <= CalibrationTolerance

(* C14: at every analysis pass each band's cached centre bin is the band's *)
(* centre frequency divided by the bin width of the sample rate the pass   *)
(* computes with, also after the host's sample rate has changed.           *)
C14_CentreBinTracksRate ==
    PassJustRan =>
        \A b \in Bands :
            d.potCentreBins[b] = CentreBin(d.potCentres[b], BinHz(call.rate))

-----------------------------------------------------------------------------
(* Frame properties: which handler writes what *)

(* C15: no call to draw, at any point among step, parameterChanged and the *)
(* user-interface calls, changes the magnitude spectrum or the cached      *)
(* centre bins: the spectrum stays the one of the most recent pass.        *)
C15_DrawReadsOnly ==
    [][call'.op = "draw" =>
        (d'.magnitude = d.magnitude /\ d'.potCentreBins = d.potCentreBins)]_vars

(* C16: the envelopes are all 0 after construct, and afterwards they       *)
(* change only in a step call that runs a pass, from the value they had to *)
(* the value the call's last smoothing update left; parameterChanged,      *)
(* draw, customUi, setupUi and the output stage leave them as they are.    *)
C16_EnvWrittenOnlyByPass ==
    [][/\ call.op = "construct" => \A b \in Bands : d.env[b] = 0
       /\ d'.env # d.env =>
            /\ call'.op = "step" /\ call'.passes >= 1
            /\ Len(d'.trace) = Len(d.trace) + call'.passes
            /\ d'.trace[Len(d.trace) + 1].before = d.env
            /\ d'.env = d'.trace[Len(d'.trace)].after
       /\ call'.op # "step" => d'.env = d.env
       /\ (call'.op = "step" /\ call'.passes = 0) => d'.env = d.env]_vars

(* A pass has raised band A's envelope; since then the display was         *)
(* initialised, the vertical scale and a band frequency were changed       *)
(* through customUi, and the envelope is still what the pass left          *)
C16_Witness ==
    /\ call.op = "customUi"
    /\ Len(d.trace) >= 1 /\ d.env[0] > 0 /\ d.env = LastPass.after
    /\ d.displayInitialized /\ d.yScale # One
    /\ d.potCentres[1] # 0

(* The fields of the instance derived from parameter p *)
DerivedFields(p) ==
    CASE p \in {kParamBandAFreq, kParamBandBFreq, kParamBandCFreq} ->
            {"potCentres", "potCentreBins"}
      [] p = kParamBandwidth -> {"bandwidthOctaves"}
      [] p = kParamAttackTime -> {"attackCoeff"}
      [] p = kParamReleaseTime -> {"releaseCoeff"}
      [] OTHER -> {}

(* Every pass of the last step call computed its ranges and its smoothing  *)
(* with the descriptors and coefficients the instance holds                *)
PassesUsedCurrentValues ==
    \A i \in (Len(d.trace) - call.passes + 1) .. Len(d.trace) : \A b \in Bands :
        /\ d.trace[i].lo[b] = BandRange(d, b, call.rate)[1]
        /\ d.trace[i].hi[b] = BandRange(d, b, call.rate)[2]
        /\ d.trace[i].after[b] =
                Smooth(d.trace[i].before[b], d.trace[i].energy[b],
                       d.attackCoeff, d.releaseCoeff)

(* C17: parameterChanged writes only the fields derived from its           *)
(* parameter (for a band frequency, only that band's entries, the centre   *)
(* frequency being the new value); buffer, cursor, counter, envelopes,     *)
(* spectrum and the other descriptors stay as they were; and the passes of *)
(* the next step call compute with the values it wrote.                    *)
C17_ParameterWriteIsLocal ==
    /\ [][call'.op = "parameterChanged" =>
            /\ \A f \in (DOMAIN d) \ DerivedFields(call'.param) : d'[f] = d[f]
            /\ \A b \in Bands :
                 IF call'.param = kParamBandAFreq + b
                 THEN d'.potCentres[b] = v'[call'.param]
                 ELSE /\ d'.potCentres[b] = d.potCentres[b]
                      /\ d'.potCentreBins[b] = d.potCentreBins[b]
      ]_vars
    /\ [](PassJustRan => PassesUsedCurrentValues)

(* A first step call ran a pass with the coefficients of construct; then   *)
(* attack time and bandwidth were changed, and the pass of the next step   *)
(* call attacked with the new coefficient over the new range               *)
C17_Witness ==
    /\ PassJustRan /\ Len(d.trace) > call.passes
    /\ d.attackCoeff # Construct.attackCoeff
    /\ d.bandwidthOctaves # Construct.bandwidthOctaves
    /\ d.trace[1].after[0] = d.trace[1].before[0]
            + MulQ(Construct.attackCoeff, d.trace[1].energy[0] - d.trace[1].before[0])
    /\ d.trace[1].after[0] # d.trace[1].before[0]
            + MulQ(d.attackCoeff, d.trace[1].energy[0] - d.trace[1].before[0])
    /\ LastPass.energy[0] > LastPass.before[0]
    /\ LastPass.after[0] = LastPass.before[0]
            + MulQ(d.attackCoeff, LastPass.energy[0] - LastPass.before[0])
    /\ d.samplesAccumulated > 0

-----------------------------------------------------------------------------
(* Properties of the scheduler, sample by sample *)

(* C18: when the analysis interval (int)(sampleRate / 60) is 0 or less,    *)
(* a pass runs exactly once every kFftSize = 512 ingested samples: the     *)
(* i-th pass runs at sample 512 * i, and no pass is missing.               *)
C18_FallbackEveryWindow ==
    FftInterval(EffectiveSampleRate(sampleRate)) <= 0 =>
        /\ \A i \in 1 .. Len(d.trace) : d.trace[i].at = kFftSize * i
        /\ d.passes = d.ingested \div kFftSize

(* The samples between two passes: the counter starts at 0, grows by one   *)
(* per sample and is tested after the increment                            *)
Period == Min(Max(FftInterval(EffectiveSampleRate(sampleRate)), 1), kFftSize)

(* C20: each ingested sample increments the counter, and a pass runs       *)
(* exactly when the incremented counter is at least the interval or is     *)
(* 512, after which the counter is 0: the i-th pass runs at sample         *)
(* Period * i, every multiple of Period up to the samples ingested has its *)
(* pass, and the counter holds the samples ingested since the last pass.   *)
C20_SchedulerRule ==
    /\ Period >= FftInterval(EffectiveSampleRate(sampleRate)) \/ Period = kFftSize
    /\ \A c \in 1 .. (Period - 1) :
         c < FftInterval(EffectiveSampleRate(sampleRate)) /\ c # kFftSize
    /\ \A i \in 1 .. Len(d.trace) : d.trace[i].at = Period * i
    /\ d.passes = d.ingested \div Period
    /\ Len(d.trace) = d.passes
    /\ d.samplesSinceLastFFT = d.ingested % Period
    /\ d.samplesSinceLastFFT < Period

(* A run at 30000 Hz (interval 500, below the window) in which the last    *)
(* call ended between two passes, the counter holding the samples since    *)
C20_Witness ==
    /\ FftInterval(EffectiveSampleRate(sampleRate)) = 500
    /\ d.passes >= 2
    /\ d.trace[2].at = 1000
    /\ call.passes = 0
    /\ d.samplesSinceLastFFT > 0
    /\ d.samplesSinceLastFFT = d.ingested - d.trace[Len(d.trace)].at

-----------------------------------------------------------------------------
(* Properties of the smoothing coefficients *)

(* The updates of a time clamped up to one update period (1 / 60 s) *)
ClampedUpdates(timeMs) == Max(One, UpdatesOf(timeMs))

(* C19: the coefficients construct leaves, and the coefficient a change of *)
(* the attack or release time leaves, are 1 - exp(-1 / updates) with the   *)
(* time clamped up to one update period, so that updates is never below 1  *)
(* and no coefficient exceeds 1 - exp(-1).                                 *)
C19_TimeClampedToOneUpdate ==
    /\ d.attackCoeff <= SmoothingCoeff(One)
    /\ d.releaseCoeff <= SmoothingCoeff(One)
    /\ call.op = "construct" =>
         /\ d.attackCoeff = SmoothingCoeff(ClampedUpdates(ParamDefault(kParamAttackTime)))
         /\ d.releaseCoeff = SmoothingCoeff(ClampedUpdates(ParamDefault(kParamReleaseTime)))
    /\ (call.op = "parameterChanged" /\ call.param = kParamAttackTime) =>
         d.attackCoeff = SmoothingCoeff(ClampedUpdates(v[kParamAttackTime]))
    /\ (call.op = "parameterChanged" /\ call.param = kParamReleaseTime) =>
         d.releaseCoeff = SmoothingCoeff(ClampedUpdates(v[kParamReleaseTime]))

-----------------------------------------------------------------------------
(* The circular buffer: a stream of distinct samples in short and long     *)
(* blocks, from a fresh instance and from one whose persisted cursor has   *)
(* been overwritten with a value outside the buffer                        *)

BufferRates == {48000, 2400}
BufferFrameChoices == {2, 130}
MaxBufferSamples == 1100

(* The persisted cursor as construct leaves it, and two values outside     *)
(* [0, kFftSize) that the range test at the top of step guards against     *)
EntryCursors == {0, -1, kFftSize}

BufferInit ==
    /\ \E c \in EntryCursors : d = [Construct EXCEPT !.samplesAccumulated = c]
    /\ d2 = Construct
    /\ v = [p \in Params |-> ParamDefault(p)]
    /\ sampleRate \in BufferRates
    /\ stream = "ramp"
    /\ bus = [entry |-> NoBus, exit |-> NoBus]
    /\ call = NoCall
    /\ calls = NoCalls

BufferStep ==
    /\ d.ingested < MaxBufferSamples
    /\ \E framesBy4 \in BufferFrameChoices : StepCall(ScriptedCall(d, framesBy4))

(* A call step ignores, made once the stream is under way or not at all *)
BufferBadStep ==
    /\ d.ingested < MaxBufferSamples
    /\ call.op # "step" \/ ~call.busNull
    /\ StepCall([ScriptedCall(d, 2) EXCEPT !.busNull = TRUE])

BufferNext == BufferStep \/ BufferBadStep

BufferSpec == BufferInit /\ [][BufferNext]_vars

-----------------------------------------------------------------------------
(* Properties of the circular buffer *)

(* The sample of a block of n that is the last one written to slot s when  *)
(* writing starts at slot c0 (0-based; n or more: the slot is not written) *)
LastWriteTo(s, c0, n) ==
    LET first == (s - c0 + kFftSize) % kFftSize
    IN  IF first < n THEN first + kFftSize * ((n - 1 - first) \div kFftSize) ELSE n

(* C21: an accepted step call writes every sample of its block once, in    *)
(* order, at the cursor, which then advances by one modulo kFftSize: after *)
(* a block of numFrames samples the persisted cursor is (cursor on entry + *)
(* numFrames) mod 512, numFrames more samples have been written, and each  *)
(* slot holds the last sample of the block that fell on it (its old value  *)
(* if none did), whether the block is shorter or longer than the buffer.   *)
C21_SamplesWrittenInOrder ==
    [][ Ingesting' =>
            LET n == call'.framesBy4 * 4
                c0 == StartCursor(d.samplesAccumulated)
                inBuf == bus'.entry[v'[kParamInput]]
            IN  /\ d'.samplesAccumulated = (c0 + n) % kFftSize
                /\ d'.ingested = d.ingested + n
                /\ \A s \in 0 .. (kFftSize - 1) :
                      d'.inputBuffer[s + 1] =
                          IF LastWriteTo(s, c0, n) < n
                          THEN inBuf[LastWriteTo(s, c0, n) + 1]
                          ELSE d.inputBuffer[s + 1] ]_vars

(* An accepted block longer than the buffer, entered with the cursor in    *)
(* the middle of the buffer                                                *)
C21_Witness ==
    /\ Ingesting
    /\ call.framesBy4 * 4 > kFftSize
    /\ call.cursor > 0 /\ call.cursor < kFftSize
    /\ d.samplesAccumulated = (call.cursor + call.framesBy4 * 4) % kFftSize

(* The kFftSize samples of the stream that end with sample number at       *)
(* (1-based), oldest first, zeros standing in for samples before the start *)
StreamWindow(at) ==
    [i \in 1 .. kFftSize |->
        LET t == at - kFftSize + i - 1
        IN  IF t < 0 THEN 0 ELSE InputSample(stream, t)]

(* The circular buffer after the first count samples of the stream were    *)
(* written from slot 0 on: slot s holds the latest sample that fell on it  *)
StreamBuffer(count) ==
    [i \in 1 .. kFftSize |->
        LET s == i - 1
            turns == (count - 1 - s) \div kFftSize
        IN  IF s < count THEN InputSample(stream, s + kFftSize * turns) ELSE 0]

(* C22: at every analysis pass the scratch buffer handed to windowing      *)
(* holds the 512 most recently written samples, oldest first and the       *)
(* sample just written last, with zeros for samples before the start of    *)
(* the stream; the circular buffer still holds every sample where it was   *)
(* written.                                                                *)
C22_WindowIsLatestSamples ==
    /\ d.passes >= 1 => d.tempBuffer = StreamWindow(LastPass.at)
    /\ d.inputBuffer = StreamBuffer(d.ingested)

(* A pass run in the middle of the buffer after it has wrapped: the window *)
(* starts with the sample written 512 samples before the last one          *)
C22_Witness ==
    /\ d.passes >= 1
    /\ LastPass.at > kFftSize
    /\ LastPass.startIdx # 0
    /\ d.tempBuffer[1] = InputSample(stream, LastPass.at - kFftSize)
    /\ d.tempBuffer[kFftSize] = InputSample(stream, LastPass.at - 1)

(* The persisted cursor the last step call found was a slot of the buffer *)
FoundInRange == call.cursor >= 0 /\ call.cursor <= kFftSize - 1

(* C23: a step call leaves the persisted cursor in [0, 511]: an accepted   *)
(* call always, a rejected call as it found it; an accepted call that      *)
(* finds the cursor outside that range starts writing at slot 0, so that   *)
(* the block ends at slot numFrames mod 512 and slot 0 holds a sample of   *)
(* the block.                                                              *)
C23_CursorInRange ==
    call.op = "step" =>
        /\ (Ingesting \/ FoundInRange) =>
                d.samplesAccumulated >= 0 /\ d.samplesAccumulated <= kFftSize - 1
        /\ (Ingesting /\ ~FoundInRange) =>
                LET n == call.framesBy4 * 4
                    last == kFftSize * ((n - 1) \div kFftSize)
                IN  /\ d.samplesAccumulated = n % kFftSize
                    /\ d.inputBuffer[1] = bus.entry[v[kParamInput]][last + 1]
                    /\ d.inputBuffer[2] = bus.entry[v[kParamInput]][last + 2]

(* An accepted call that found the cursor one past the end of the buffer *)
C23_Witness ==
    /\ Ingesting
    /\ call.cursor = kFftSize
    /\ d.samplesAccumulated = (call.framesBy4 * 4) % kFftSize
    /\ d.inputBuffer[1] # 0

-----------------------------------------------------------------------------
(* Properties of the envelope follower *)

(* The envelopes the i-th pass found: those of construct, or those the     *)
(* pass before it left                                                     *)
EnvBeforePass(i) == IF i = 1 THEN [b \in Bands |-> 0] ELSE d.trace[i - 1].after

(* C24: each analysis pass moves each band's envelope once, by attackCoeff *)
(* times (energy - env) if the band's clamped energy is above the          *)
(* envelope and by releaseCoeff times (energy - env) otherwise; between    *)
(* passes the envelope stays as the last pass left it.                     *)
C24_OneUpdatePerPass ==
    /\ \A i \in 1 .. Len(d.trace) : \A b \in Bands :
          LET r == d.trace[i]
              coeff == IF r.energy[b] > r.before[b] THEN d.attackCoeff
                       ELSE d.releaseCoeff
          IN  /\ r.before[b] = EnvBeforePass(i)[b]
              /\ r.after[b] = r.before[b] + MulQ(coeff, r.energy[b] - r.before[b])
    /\ d.env = EnvBeforePass(Len(d.trace) + 1)

(* An attack and a release have both happened, and samples have been       *)
(* ingested since the last pass                                            *)
C24_Witness ==
    /\ \E i \in 1 .. Len(d.trace) :
          d.trace[i].energy[0] > d.trace[i].before[0]
          /\ d.trace[i].after[0] > d.trace[i].before[0]
    /\ \E i \in 1 .. Len(d.trace) :
          d.trace[i].energy[0] < d.trace[i].before[0]
          /\ d.trace[i].after[0] < d.trace[i].before[0]
    /\ d.ingested > LastPass.at
    /\ d.env = LastPass.after

-----------------------------------------------------------------------------
(* Smoothing coefficients: the host sets attack and release times across   *)
(* their declared ranges                                                   *)

AttackTimes == {1, 2, 5, 10, 17, 50, 100, 250, 500, 1000}
ReleaseTimes == {10, 20, 50, 100, 500, 1000, 5000}
MaxCoeffChanges == 2

CoeffInit ==
    /\ d = Construct
    /\ d2 = Construct
    /\ v = [p \in Params |-> ParamDefault(p)]
    /\ sampleRate = 48000
    /\ stream = "silence"
    /\ bus = [entry |-> NoBus, exit |-> NoBus]
    /\ call = NoCall
    /\ calls = NoCalls

SetAttackTime ==
    /\ calls.param < MaxCoeffChanges
    /\ \E ms \in AttackTimes : SetParameterTo(kParamAttackTime, ms)
    /\ calls' = [calls EXCEPT !.param = @ + 1]

SetReleaseTime ==
    /\ calls.param < MaxCoeffChanges
    /\ \E ms \in ReleaseTimes : SetParameterTo(kParamReleaseTime, ms)
    /\ calls' = [calls EXCEPT !.param = @ + 1]

CoeffNext == SetAttackTime \/ SetReleaseTime

CoeffSpec == CoeffInit /\ [][CoeffNext]_vars

(* Every time from lo to hi ms gives a coefficient in [0, 1] *)
CoeffsInUnitRange(lo, hi) ==
    \A ms \in lo .. hi :
        SmoothingCoeff(UpdatesOf(ms)) >= 0 /\ SmoothingCoeff(UpdatesOf(ms)) <= One

AttackCoeffsInUnitRange ==
    CoeffsInUnitRange(ParamMin(kParamAttackTime), ParamMax(kParamAttackTime))

ReleaseCoeffsInUnitRange ==
    CoeffsInUnitRange(ParamMin(kParamReleaseTime), ParamMax(kParamReleaseTime))

(* C25: after construct and after any parameterChanged for the attack time *)
(* (1 to 1000 ms) or the release time (10 to 5000 ms), attackCoeff and     *)
(* releaseCoeff are both at least 0 and at most 1; so is the coefficient   *)
(* of every time in the two ranges.                                        *)
C25_CoeffsInUnitRange ==
    /\ d.attackCoeff >= 0 /\ d.attackCoeff <= One
    /\ d.releaseCoeff >= 0 /\ d.releaseCoeff <= One
    /\ AttackCoeffsInUnitRange
    /\ ReleaseCoeffsInUnitRange

(* The shortest attack and the longest release have been set: the attack   *)
(* coefficient is all but 1, the release coefficient all but 0             *)
C25_Witness ==
    /\ call.op = "parameterChanged"
    /\ v[kParamAttackTime] = ParamMin(kParamAttackTime)
    /\ v[kParamReleaseTime] = ParamMax(kParamReleaseTime)
    /\ d.attackCoeff = SmoothingCoeff(UpdatesOf(ParamMin(kParamAttackTime)))
    /\ d.releaseCoeff = SmoothingCoeff(UpdatesOf(ParamMax(kParamReleaseTime)))
    /\ d.attackCoeff > One - One \div 100
    /\ d.releaseCoeff < One \div 100

-----------------------------------------------------------------------------
(* Properties of the bounds of band extraction *)

(* C26: in every analysis pass and for every band, both ends of the bin    *)
(* range, lo and hi, lie in [0, half - 1] = [0, 255] after clamping, for   *)
(* every centre frequency, bandwidth and sample rate.                      *)
C26_RangeEndsInSpectrum ==
    \A i \in 1 .. Len(d.trace) : \A b \in Bands :
        /\ d.trace[i].lo[b] >= 0 /\ d.trace[i].lo[b] <= half - 1
        /\ d.trace[i].hi[b] >= 0 /\ d.trace[i].hi[b] <= half - 1

-----------------------------------------------------------------------------
(* Array bounds: the host sets the extreme centre frequencies and          *)
(* bandwidths at a low and a high sample rate, and plays blocks shorter    *)
(* and longer than the buffer                                              *)

BoundsRates == {2400, 48000}
BoundsFrameChoices == {32, 130}
MaxBoundsSamples == 600
MaxBoundsParamChanges == 2

BoundsParamValues(p) ==
    CASE p = kParamBandAFreq -> {ParamMin(p), ParamMax(p)}
      [] p = kParamBandwidth -> {ParamMin(p), ParamMax(p)}
      [] OTHER -> {}

BoundsInit ==
    /\ d = Construct
    /\ d2 = Construct
    /\ v = [p \in Params |-> ParamDefault(p)]
    /\ sampleRate \in BoundsRates
    /\ stream = "loud"
    /\ bus = [entry |-> NoBus, exit |-> NoBus]
    /\ call = NoCall
    /\ calls = NoCalls

BoundsStep ==
    /\ d.ingested < MaxBoundsSamples
    /\ \E framesBy4 \in BoundsFrameChoices : StepCall(ScriptedCall(d, framesBy4))

BoundsSetParameter ==
    /\ calls.param < MaxBoundsParamChanges
    /\ \E p \in Params : \E val \in BoundsParamValues(p) :
         /\ SetParameterTo(p, val)
         /\ calls' = [calls EXCEPT !.param = @ + 1]

BoundsNext == BoundsStep \/ BoundsSetParameter

BoundsSpec == BoundsInit /\ [][BoundsNext]_vars

(* The slots of the circular buffer a pass reads when the cursor stands at *)
(* startIdx: startIdx + i for i < kFftSize, less kFftSize once past the    *)
(* end of the buffer                                                       *)
SlotsRead(startIdx) ==
    {IF startIdx + i >= kFftSize THEN startIdx + i - kFftSize ELSE startIdx + i :
        i \in 0 .. (kFftSize - 1)}

(* The bins of the spectrum band b's scan reads in the pass recorded as r *)
BinsRead(r, b) == IF r.hi[b] >= r.lo[b] THEN r.lo[b] .. r.hi[b] ELSE {}

(* C27: every array access of step is within bounds: the cursor it writes  *)
(* at and persists, and every slot a pass copies from, lie in [0, 511],    *)
(* and every spectrum bin read for a band lies in [0, 255], none being     *)
(* read when hi < lo.                                                      *)
C27_AccessesInBounds ==
    /\ d.samplesAccumulated >= 0 /\ d.samplesAccumulated <= kFftSize - 1
    /\ \A i \in 1 .. Len(d.trace) :
          /\ d.trace[i].startIdx >= 0 /\ d.trace[i].startIdx <= kFftSize - 1
          /\ SlotsRead(d.trace[i].startIdx) \subseteq 0 .. (kFftSize - 1)
          /\ \A b \in Bands : BinsRead(d.trace[i], b) \subseteq 0 .. (half - 1)

(* Passes in which band A's range was cut at bin 0, was cut at bin 255,    *)
(* and was empty beyond the spectrum, one of them copied from the middle   *)
(* of the buffer                                                           *)
C27_Witness ==
    /\ \E i \in 1 .. Len(d.trace) :
          /\ d.trace[i].lo[0] = 0 /\ d.trace[i].hi[0] = half - 1
          /\ d.trace[i].startIdx > 0
    /\ \E i \in 1 .. Len(d.trace) :
          d.trace[i].lo[0] > half - 1 /\ BinsRead(d.trace[i], 0) = {}
    /\ d.ingested > kFftSize

-----------------------------------------------------------------------------
(* The transform routines bitReverse, simpleFFT and realFFT, by the        *)
(* indices of their buffers they read and write.  A result is              *)
(* [read, touched, written]: the indices of realInput read, the indices of *)
(* the complex buffer read or written, and those written.                  *)

RECURSIVE BitAnd(_, _)
BitAnd(a, b) ==
    IF a = 0 \/ b = 0 THEN 0
    ELSE (a % 2) * (b % 2) + 2 * BitAnd(a \div 2, b \div 2)

RECURSIVE BitXor(_, _)
BitXor(a, b) ==
    IF a = 0 THEN b
    ELSE IF b = 0 THEN a
    ELSE ((a + b) % 2) + 2 * BitXor(a \div 2, b \div 2)

NothingTouched == [read |-> {}, touched |-> {}, written |-> {}]

(* if (!data || n <= 0 || n > kFftSize) return; *)
TransformRejects(bufferNull, n) == bufferNull \/ n <= 0 \/ n > kFftSize

(* while (j & bit) { j ^= bit; bit >>= 1; }  j ^= bit; *)
RECURSIVE ReverseIncrement(_, _)
ReverseIncrement(j, bit) ==
    IF BitAnd(j, bit) # 0 THEN ReverseIncrement(BitXor(j, bit), bit \div 2)
    ELSE BitXor(j, bit)

(* One iteration of for (i = 1; i < n; i++).  st = [j, swapped]: the       *)
(* reversed counter and the indices swapped so far                         *)
BitReverseStep(st, i, n) ==
    LET j1 == ReverseIncrement(st.j, n \div 2)
    IN  [j |-> j1,
         swapped |-> IF i < j1 THEN st.swapped \cup {i, j1} ELSE st.swapped]

(* The iterations lo .. hi - 1 in order; the range is split in halves and  *)
(* the first half is evaluated before the second starts                    *)
RECURSIVE BitReverseLoop(_, _, _, _)
BitReverseLoop(st, lo, hi, n) ==
    IF hi <= lo THEN st
    ELSE IF hi = lo + 1 THEN BitReverseStep(st, lo, n)
    ELSE LET mid == (lo + hi) \div 2
             first == BitReverseLoop(st, lo, mid, n)
         IN  IF first.j >= 0 THEN BitReverseLoop(first, mid, hi, n) ELSE first

bitReverse(dataNull, n) ==
    IF TransformRejects(dataNull, n) THEN NothingTouched
    ELSE LET swapped == BitReverseLoop([j |-> 0, swapped |-> {}], 1, n, n).swapped
         IN  [read |-> {}, touched |-> swapped, written |-> swapped]

(* for (len = 2; len <= n; len <<= 1) *)
StageLengths(n) == {len \in {2 ^ k : k \in 1 .. 9} : len <= n}

(* data[i + j] and data[i + j + len / 2] for j < len / 2: the len elements *)
(* from i on, for i = 0, len, 2 len, ... below n, in every stage           *)
Butterflies(n) ==
    UNION {UNION {(len * m) .. (len * m + len - 1) : m \in 0 .. ((n - 1) \div len)} :
              len \in StageLengths(n)}

simpleFFT(dataNull, n) ==
    IF TransformRejects(dataNull, n) THEN NothingTouched
    ELSE LET reversed == bitReverse(dataNull, n)
             touched == reversed.touched \cup Butterflies(n)
         IN  [read |-> {}, touched |-> touched, written |-> touched]

realFFT(inputNull, outputNull, n) ==
    IF TransformRejects(inputNull \/ outputNull, n) THEN NothingTouched
    ELSE LET copied == 0 .. (n - 1)
             transformed == simpleFFT(outputNull, n)
         IN  [read |-> copied,
              touched |-> copied \cup transformed.touched,
              written |-> copied \cup transformed.written]

(* Sizes handed to the routines: none, small ones, powers of two up to the *)
(* capacity, and sizes beyond it                                           *)
TransformSizes == (-1 .. 24) \cup {32, 48, 64, 100, 128, 256, 500, 512, 513, 1024}

CallTransform(routine, inputNull, dataNull, n, result) ==
    /\ call' = [NoCall EXCEPT !.op = "transform",
                              !.fft = [routine |-> routine, inputNull |-> inputNull,
                                       dataNull |-> dataNull, n |-> n,
                                       read |-> result.read,
                                       touched |-> result.touched,
                                       written |-> result.written]]
    /\ UNCHANGED <<d, d2, v, sampleRate, stream, bus, calls>>

CallBitReverse ==
    \E dataNull \in BOOLEAN, n \in TransformSizes :
        CallTransform("bitReverse", FALSE, dataNull, n, bitReverse(dataNull, n))

CallSimpleFFT ==
    \E dataNull \in BOOLEAN, n \in TransformSizes :
        CallTransform("simpleFFT", FALSE, dataNull, n, simpleFFT(dataNull, n))

CallRealFFT ==
    \E inputNull \in BOOLEAN, outputNull \in BOOLEAN, n \in TransformSizes :
        CallTransform("realFFT", inputNull, outputNull, n,
                      realFFT(inputNull, outputNull, n))

TransformInit ==
    /\ d = Construct
    /\ d2 = Construct
    /\ v = [p \in Params |-> ParamDefault(p)]
    /\ sampleRate = 48000
    /\ stream = "silence"
    /\ bus = [entry |-> NoBus, exit |-> NoBus]
    /\ call = NoCall
    /\ calls = NoCalls

TransformNext == CallBitReverse \/ CallSimpleFFT \/ CallRealFFT

TransformSpec == TransformInit /\ [][TransformNext]_vars

RECURSIVE PowerOfTwo(_)
PowerOfTwo(n) == n = 1 \/ (n > 1 /\ n % 2 = 0 /\ PowerOfTwo(n \div 2))

(* The size the contract of the transform allows: a power of two from 1 to *)
(* the capacity 512                                                        *)
ContractSize(n) == n >= 1 /\ n <= kFftSize /\ PowerOfTwo(n)

(* C28: a transform routine given a null buffer or a size that is not a    *)
(* power of two from 1 to 512 reads and writes nothing; a routine that     *)
(* does run on a size n reads and writes only indices 0 to n - 1.          *)
C28_TransformFailsSafe ==
    call.op = "transform" =>
        /\ (call.fft.inputNull \/ call.fft.dataNull \/ ~ContractSize(call.fft.n)) =>
              (call.fft.read = {} /\ call.fft.touched = {} /\ call.fft.written = {})
        /\ (call.fft.read \cup call.fft.touched) \subseteq 0 .. (call.fft.n - 1)

-----------------------------------------------------------------------------
(* Routing: the host routes bands to the input bus and to each other's     *)
(* output bus, in replace and in add mode, and plays short blocks          *)

RouteRates == {240}
RouteFrameChoices == {1, 2}
MaxRouteSteps == 2
MaxRouteParamChanges == 3

(* Band A's output goes to the input bus; bands B and C go to band A's     *)
(* default output bus; each band can be switched to add mode               *)
RouteParamValues(p) ==
    CASE p = kParamCvOut1 -> {ParamDefault(kParamInput)}
      [] p \in {kParamCvOut2, kParamCvOut3} -> {ParamDefault(kParamCvOut1)}
      [] p \in {kParamCvOut1Mode, kParamCvOut2Mode, kParamCvOut3Mode} -> {1}
      [] OTHER -> {}

RouteInit ==
    /\ d = Construct
    /\ d2 = Construct
    /\ v = [p \in Params |-> ParamDefault(p)]
    /\ sampleRate \in RouteRates
    /\ stream = "loud"
    /\ bus = [entry |-> NoBus, exit |-> NoBus]
    /\ call = NoCall
    /\ calls = NoCalls

(* The host hands over the next block of the stream on the input bus, with *)
(* 3 V standing on every other bus                                         *)
RouteStep ==
    /\ calls.step < MaxRouteSteps
    /\ \E framesBy4 \in RouteFrameChoices, bg \in Background :
         StepCall([ScriptedCall(d, framesBy4) EXCEPT
                      !.bus = HostBus(stream, d.ingested, v[kParamInput], bg,
                                      framesBy4 * 4)])

RouteSetParameter ==
    /\ calls.param < MaxRouteParamChanges
    /\ \E p \in Params : \E val \in RouteParamValues(p) :
         /\ SetParameterTo(p, val)
         /\ calls' = [calls EXCEPT !.param = @ + 1]

RouteNext == RouteStep \/ RouteSetParameter

RouteSpec == RouteInit /\ [][RouteNext]_vars

-----------------------------------------------------------------------------
(* Properties of the order of reads and writes on the bus *)

(* C29: when a band's output bus is the input bus, an accepted step call   *)
(* ingests the samples that stood on the bus at entry: the slots written   *)
(* in the call hold the block's samples as the host handed them over, and  *)
(* the window of the call's last pass is made of the stream's samples, not *)
(* of the voltage the call then wrote on the bus.                          *)
C29_InputReadBeforeOutput ==
    (Ingesting /\ \E b \in Bands : OutBus(b) = v[kParamInput]) =>
        /\ \A j \in 0 .. (call.framesBy4 * 4 - 1) :
              d.inputBuffer[((call.cursor + j) % kFftSize) + 1] =
                  bus.entry[v[kParamInput]][j + 1]
        /\ call.passes >= 1 => d.tempBuffer = StreamWindow(LastPass.at)
        /\ d.ingested = call.before + call.framesBy4 * 4

(* Band A replaced the input bus's samples with its voltage after a pass   *)
(* had raised its envelope; the buffer holds what the host had put there   *)
C29_Witness ==
    /\ Ingesting /\ call.passes >= 1
    /\ OutBus(0) = v[kParamInput] /\ ~AddMode(0)
    /\ d.env[0] > 0
    /\ bus.exit[v[kParamInput]][1] = Volts(0)
    /\ bus.exit[v[kParamInput]][1] # bus.entry[v[kParamInput]][1]
    /\ d.inputBuffer[call.cursor + 1] = bus.entry[v[kParamInput]][1]

(* The bands routed to channel c *)
BandsOn(c) == {b \in Bands : OutBus(b) = c}

(* The last band in replace mode on channel c, or -1 if there is none *)
LastReplace(c) ==
    IF \E b \in BandsOn(c) : ~AddMode(b)
    THEN CHOOSE b \in BandsOn(c) :
            ~AddMode(b) /\ \A b2 \in BandsOn(c) : b2 > b => AddMode(b2)
    ELSE -1

(* The voltage band b adds to channel c if it is an add-mode band on c     *)
(* later than band l                                                       *)
AddedBy(b, c, l) == IF b \in BandsOn(c) /\ AddMode(b) /\ b > l THEN Volts(b) ELSE 0

(* C30: when several bands are routed to one bus, the bus holds after the  *)
(* step the result of the bands' writes in the order A, B, C: the voltage  *)
(* of the last replace-mode band (the host's content if there is none;     *)
(* what earlier bands wrote or added is gone), plus the voltages of the    *)
(* add-mode bands that come after it.                                      *)
C30_SharedBusInBandOrder ==
    Ingesting =>
        \A c \in 1 .. kMaxBus :
            Cardinality(BandsOn(c)) >= 2 =>
                \A n \in 1 .. (4 * call.framesBy4) :
                    bus.exit[c][n] =
                        (IF LastReplace(c) >= 0 THEN Volts(LastReplace(c))
                         ELSE bus.entry[c][n])
                        + AddedBy(0, c, LastReplace(c))
                        + AddedBy(1, c, LastReplace(c))
                        + AddedBy(2, c, LastReplace(c))

(* All three bands on one bus, A and B replacing and C adding, after a     *)
(* pass raised the envelopes: the bus holds band B's voltage plus band C's *)
C30_Witness ==
    /\ Ingesting /\ call.passes >= 1
    /\ OutBus(1) = OutBus(0) /\ OutBus(2) = OutBus(0) /\ Routed(0)
    /\ ~AddMode(0) /\ ~AddMode(1) /\ AddMode(2)
    /\ d.env[1] > 0 /\ d.env[2] > 0
    /\ bus.exit[OutBus(0)][1] = Volts(1) + Volts(2)
    /\ bus.exit[OutBus(0)][1] # bus.entry[OutBus(0)][1]

=============================================================================
